---- MODULE Spec2Model ----
(***************************************************************************)
(* A model of the tridentine_calendar package: the Gregorian computus, the *)
(* movable-feast date functions, the liturgical-year boundaries, the       *)
(* season classifier, the per-year calendar assembly with its precedence   *)
(* sort, and the multi-year calendar lookup.                               *)
(*                                                                         *)
(* Dates are proleptic Gregorian ordinals, as datetime.date.toordinal():   *)
(* January 1 of year 1 is day 1.  A timedelta is a number of days.         *)
(***************************************************************************)
EXTENDS Integers, Sequences, FiniteSets, Bags, TLC

VARIABLES
    op,     \* the operation the caller runs ("computus", "liturgical_year", ...)
    pc,     \* "call" before the operation has run, "done" after it has returned
    year,   \* the integer year argument
    date,   \* the datetime.date argument (an ordinal)
    ret,    \* the value returned (meaningful when pc = "done")
    FIXED_FEASTS_DATA,    \* fixed_feasts_ferias_et_al.json: <<month, day>> -> records
    MOVABLE_FEASTS_DATA,  \* movable_feasts_ferias_et_al.json: name -> record
    liturgical_years,     \* LiturgicalCalendar.liturgical_years: year -> LiturgicalYear
    ics_file,             \* the ICS file: whether it exists, and the bag of its events
    lru_cache             \* functools.lru_cache of computus: entries, oldest first

vars == <<op, pc, year, date, ret, FIXED_FEASTS_DATA, MOVABLE_FEASTS_DATA,
          liturgical_years, ics_file, lru_cache>>

(***************************************************************************)
(* Bounds of the model.                                                    *)
(***************************************************************************)
\* Years the year-valued functions are applied to.
MinYear == 1583
MaxYear == 9999
\* Civil years whose days the date-valued functions are applied to: from the
\* earliest Easter there is (March 22, 1818) to the latest (April 25, 2038).
MinDateYear == 1818
MaxDateYear == 2038

\* The liturgical years that are assembled: 2018 (the year of the tests) up
\* to MaxAssembleYear.
MaxAssembleYear == 2024

\* LiturgicalCalendar is constructed over the years 2018..MaxCalendarYear and
\* read within KeySpan days of the boundaries of these liturgical years.
MaxCalendarYear == 2020
KeySpan == 40

Years == MinYear..MaxYear

AssembleYears == 2018..MaxAssembleYear

(***************************************************************************)
(* datetime.date, as the package uses it.                                  *)
(***************************************************************************)
\* calendar.isleap(year)
isleap(y) == (y % 4 = 0 /\ y % 100 # 0) \/ y % 400 = 0

\* Days before January 1 of year y.
DaysBeforeYear(y) ==
    (y - 1) * 365 + ((y - 1) \div 4) - ((y - 1) \div 100) + ((y - 1) \div 400)

\* Days of a common year before the first day of each month.
DAYS_BEFORE_MONTH == <<0, 31, 59, 90, 120, 151, 181, 212, 243, 273, 304, 334>>

\* Days of year y before the first day of month m.
DaysBeforeMonth(y, m) ==
    DAYS_BEFORE_MONTH[m] + (IF m > 2 /\ isleap(y) THEN 1 ELSE 0)

\* dt.date(y, m, d)
Date(y, m, d) == DaysBeforeYear(y) + DaysBeforeMonth(y, m) + d

\* date.year
YearOf(n) ==
    LET n0   == n - 1
        n400 == n0 \div 146097
        r400 == n0 % 146097
        n100 == r400 \div 36524
        r100 == r400 % 36524
        n4   == r100 \div 1461
        r4   == r100 % 1461
        n1   == r4 \div 365
        y    == n400 * 400 + 1 + n100 * 100 + n4 * 4 + n1
    IN  IF n1 = 4 \/ n100 = 4 THEN y - 1 ELSE y

\* date.weekday(): Monday is 0 and Sunday is 6.
weekday(n) == (n + 6) % 7

(***************************************************************************)
(* feast_dates.py                                                          *)
(***************************************************************************)
\* ComputusMonthDay without the correction term m (a late Easter is not pulled
\* back by a week).
ComputusMonthDay_no_m(y) ==
    LET a == y % 19
        b == y \div 100
        c == y % 100
        d == b \div 4
        e == b % 4
        f == (b + 8) \div 25
        g == (b - f + 1) \div 3
        h == (19 * a + b - d - g + 15) % 30
        i == c \div 4
        k == c % 4
        l == (32 + 2 * e + 2 * i - h - k) % 7
    IN  [month |-> (h + l + 114) \div 31,
         day   |-> ((h + l + 114) % 31) + 1]

\* ComputusMonthDay with the solar correction g left out of h.
ComputusMonthDay_no_g(y) ==
    LET a == y % 19
        b == y \div 100
        c == y % 100
        d == b \div 4
        e == b % 4
        h == (19 * a + b - d + 15) % 30
        i == c \div 4
        k == c % 4
        l == (32 + 2 * e + 2 * i - h - k) % 7
        m == (a + 11 * h + 22 * l) \div 451
    IN  [month |-> (h + l - 7 * m + 114) \div 31,
         day   |-> ((h + l - 7 * m + 114) % 31) + 1]

\* The month and the day computus derives from the year.
ComputusMonthDay(y) ==
    LET a == y % 19
        b == y \div 100
        c == y % 100
        d == b \div 4
        e == b % 4
        f == (b + 8) \div 25
        g == (b - f + 1) \div 3
        h == (19 * a + b - d - g + 15) % 30
        i == c \div 4
        k == c % 4
        l == (32 + 2 * e + 2 * i - h - k) % 7
        m == (a + 11 * h + 22 * l) \div 451
    IN  [month |-> (h + l - 7 * m + 114) \div 31,
         day   |-> ((h + l - 7 * m + 114) % 31) + 1]

\* The body of computus: dt.date(year, month, day).
computus_body(y) ==
    LET md == ComputusMonthDay(y) IN Date(y, md.month, md.day)

\* functools.lru_cache() on computus keeps (year, value) entries, the least
\* recently used first, and drops the first one when there are more than
\* maxsize (128 in functools; LruMaxSize here).
LruMaxSize == 2

\* The entries of the cache for year y.
lru_get(cache, y) ==
    LET OfYear(entry) == entry.year = y IN SelectSeq(cache, OfYear)

\* The values of the body of computus, tabulated.
computus_values == [y \in MinYear..(MaxYear + 1) |-> computus_body(y)]

\* computus(y) without the cache.
computus_miss(y) ==
    IF y \in DOMAIN computus_values THEN computus_values[y] ELSE computus_body(y)

\* computus(y) read through the cache: the value kept for y, or the body.
computus(y) ==
    IF \E i \in DOMAIN lru_cache : lru_cache[i].year = y
    THEN lru_get(lru_cache, y)[1].value
    ELSE computus_miss(y)

\* A cache that, when full, writes the new value over the oldest entry and
\* leaves its year.
lru_touch_stale_key(cache, y) ==
    LET NotOfYear(entry) == entry.year # y
        hit == lru_get(cache, y)
    IN  IF hit # <<>>
        THEN SelectSeq(cache, NotOfYear) \o hit
        ELSE IF Len(cache) >= LruMaxSize
             THEN <<[year |-> cache[1].year, value |-> computus_miss(y)]>>
                      \o Tail(cache)
             ELSE Append(cache, [year |-> y, value |-> computus_miss(y)])

\* The cache after a call computus(y): a hit moves the entry to the end, a
\* miss appends the computed value and drops the oldest entry of a full cache.
lru_touch(cache, y) ==
    LET NotOfYear(entry) == entry.year # y
        hit == lru_get(cache, y)
    IN  IF hit # <<>>
        THEN SelectSeq(cache, NotOfYear) \o hit
        ELSE IF Len(cache) >= LruMaxSize
             THEN Append(Tail(cache), [year |-> y, value |-> computus_miss(y)])
             ELSE Append(cache, [year |-> y, value |-> computus_miss(y)])

\* The cache after computus was called with the years of the list in turn.
RECURSIVE lru_touch_all(_, _)
lru_touch_all(cache, years) ==
    IF years = <<>> THEN cache
    ELSE lru_touch_all(lru_touch(cache, Head(years)), Tail(years))

easter(y) == computus(y)

\* gaudete_sunday counted from the Christmas of the year itself.
gaudete_sunday_civil_year(y) ==
    LET xmas == Date(y, 12, 25) IN xmas - (weekday(xmas) + 8)

gaudete_sunday(y) ==
    LET xmas == Date(y - 1, 12, 25) IN xmas - (weekday(xmas) + 8)

\* sorted() of three increasing dates leaves them in place.
advent_embertide(y) ==
    <<gaudete_sunday(y) + 3, gaudete_sunday(y) + 5, gaudete_sunday(y) + 6>>

sunday_within_the_octave_of_xmas(y) ==
    LET xmas   == Date(y - 1, 12, 25)
        sunday == xmas + (6 - weekday(xmas))
    IN  IF sunday = xmas THEN sunday + 7 ELSE sunday

\* holy_name that moves only a Sunday on January 1.
holy_name_only_new_year(y) ==
    LET new_years_day == Date(y, 1, 1)
        sunday        == new_years_day + (6 - weekday(new_years_day))
    IN  IF sunday = new_years_day THEN Date(y, 1, 2) ELSE sunday

holy_name(y) ==
    LET new_years_day == Date(y, 1, 1)
        sunday        == new_years_day + (6 - weekday(new_years_day))
    IN  IF sunday \in {new_years_day, Date(y, 1, 6), Date(y, 1, 7)}
        THEN Date(y, 1, 2)
        ELSE sunday

holy_family(y) ==
    LET epiphany == Date(y, 1, 6)
        delta    == 6 - weekday(epiphany)
    IN  epiphany + (IF delta = 0 THEN 7 ELSE delta)

plough_monday(y) ==
    LET epiphany == Date(y, 1, 6)
    IN  IF weekday(epiphany) = 6 THEN epiphany + 1 ELSE holy_family(y) + 1

ash_wednesday(y) == easter(y) - 46

lenten_embertide(y) ==
    <<ash_wednesday(y) + 7, ash_wednesday(y) + 9, ash_wednesday(y) + 10>>

quinquagesima(y) == ash_wednesday(y) - 3

fat_thursday(y) == ash_wednesday(y) - 6

shrove_monday(y) == ash_wednesday(y) - 2

mardi_gras(y) == ash_wednesday(y) - 1

sexagesima(y) == quinquagesima(y) - 7

septuagesima(y) == sexagesima(y) - 7

st_matthias(y) == IF isleap(y) THEN Date(y, 2, 25) ELSE Date(y, 2, 24)

st_gabriel_of_our_lady_of_sorrows(y) ==
    IF isleap(y) THEN Date(y, 2, 28) ELSE Date(y, 2, 27)

laetare_sunday(y) == computus(y) - 21

passion_sunday(y) == computus(y) - 14

palm_sunday(y) == easter(y) - 7

seven_sorrows(y) == palm_sunday(y) - 2

spy_wednesday(y) == easter(y) - 4

maundy_thursday(y) == easter(y) - 3

good_friday(y) == easter(y) - 2

holy_saturday(y) == easter(y) - 1

quasimodo_sunday(y) == easter(y) + 7

\* lady_day with the interval open at Palm Sunday and Quasimodo Sunday.
lady_day_open_interval(y) ==
    LET march25 == Date(y, 3, 25)
    IN  IF palm_sunday(y) < march25 /\ march25 < quasimodo_sunday(y)
        THEN quasimodo_sunday(y) + 1
        ELSE IF weekday(march25) = 6 THEN march25 + 1 ELSE march25

lady_day(y) ==
    LET march25 == Date(y, 3, 25)
    IN  IF palm_sunday(y) <= march25 /\ march25 <= quasimodo_sunday(y)
        THEN quasimodo_sunday(y) + 1
        ELSE IF weekday(march25) = 6 THEN march25 + 1 ELSE march25

misericordia_sunday(y) == computus(y) + 14

jubilate_sunday(y) == computus(y) + 21

cantate_sunday(y) == computus(y) + 28

\* major_rogation moved to the day after Easter.
major_rogation_next_day(y) ==
    LET april25 == Date(y, 4, 25)
    IN  IF april25 # computus(y) THEN april25 ELSE april25 + 1

major_rogation(y) ==
    LET april25 == Date(y, 4, 25)
    IN  IF april25 # computus(y) THEN april25 ELSE april25 + 2

ascension(y) == computus(y) + 39

\* ascension - i for i in range(3, 0, -1)
minor_rogation(y) == <<ascension(y) - 3, ascension(y) - 2, ascension(y) - 1>>

pentecost(y) == computus(y) + 49

whit_embertide(y) == <<pentecost(y) + 3, pentecost(y) + 5, pentecost(y) + 6>>

trinity_sunday(y) == pentecost(y) + 7

corpus_christi(y) == trinity_sunday(y) + 4

sacred_heart(y) == corpus_christi(y) + 8

\* peters_pence as the Sunday on or after June 29.
peters_pence_following(y) ==
    LET ss_peter_paul == Date(y, 6, 29)
    IN  ss_peter_paul + ((6 - weekday(ss_peter_paul)) % 7)

\* peters_pence as the Sunday on or before June 29.
peters_pence_preceding(y) ==
    LET ss_peter_paul == Date(y, 6, 29)
    IN  ss_peter_paul - ((weekday(ss_peter_paul) + 1) % 7)

peters_pence(y) ==
    LET ss_peter_paul == Date(y, 6, 29)
    IN  ss_peter_paul + (((2 - weekday(ss_peter_paul)) % 7) - 3)

michaelmas_embertide(y) ==
    LET september1                == Date(y, 9, 1)
        first_sunday_in_september == september1 + (6 - weekday(september1))
        third_sunday_in_september == first_sunday_in_september + 14
    IN  <<third_sunday_in_september + 3, third_sunday_in_september + 5,
          third_sunday_in_september + 6>>

\* christ_the_king as the fourth Sunday of October.
christ_the_king_fourth_sunday(y) ==
    LET october1 == Date(y, 10, 1)
    IN  october1 + ((6 - weekday(october1)) % 7) + 21

christ_the_king(y) ==
    LET halloween == Date(y, 10, 31)
    IN  halloween - ((weekday(halloween) + 1) % 7)

(***************************************************************************)
(* utils.py                                                                *)
(***************************************************************************)
\* liturgical_year_start counting back 21 days instead of 22: the Monday after
\* the First Sunday of Advent.
liturgical_year_start_off_by_one(y) ==
    LET xmas == Date(y - 1, 12, 25) IN xmas - (weekday(xmas) + 21)

liturgical_year_start(y) ==
    LET xmas == Date(y - 1, 12, 25) IN xmas - (weekday(xmas) + 22)

\* liturgical_year_end anchored to the Christmas before the year, as
\* liturgical_year_start is.
liturgical_year_end_prev_xmas(y) ==
    LET next_xmas == Date(y - 1, 12, 25) IN next_xmas - (weekday(next_xmas) + 23)

liturgical_year_end(y) ==
    LET next_xmas == Date(y, 12, 25) IN next_xmas - (weekday(next_xmas) + 23)

\* liturgical_year with a strict comparison: the last day of a liturgical year
\* is given to the next one.
liturgical_year_strict(d) ==
    IF d < liturgical_year_end(YearOf(d)) THEN YearOf(d) ELSE YearOf(d) + 1

liturgical_year(d) ==
    IF d <= liturgical_year_end(YearOf(d)) THEN YearOf(d) ELSE YearOf(d) + 1

(***************************************************************************)
(* tridentine_calendar.py: LiturgicalSeason                                *)
(***************************************************************************)
\* from_date with the last interval half-open, as the intervals before it are.
from_date_open_end(d) ==
    LET y == liturgical_year(d) IN
    IF d \in {fat_thursday(y), shrove_monday(y), mardi_gras(y)}
        THEN "Shrovetide"
    ELSE IF liturgical_year_start(y) <= d /\ d < Date(y - 1, 12, 25)
        THEN "Advent"
    ELSE IF Date(y - 1, 12, 25) <= d /\ d < Date(y, 1, 6)
        THEN "Christmastide"
    ELSE IF Date(y, 1, 6) <= d /\ d < septuagesima(y)
        THEN "Time after Epiphany"
    ELSE IF septuagesima(y) <= d /\ d < ash_wednesday(y)
        THEN "Septuagesima"
    ELSE IF ash_wednesday(y) <= d /\ d < passion_sunday(y)
        THEN "Lent"
    ELSE IF passion_sunday(y) <= d /\ d < palm_sunday(y)
        THEN "Passiontide"
    ELSE IF palm_sunday(YearOf(d)) <= d /\ d < maundy_thursday(y)
        THEN "Holy Week"
    ELSE IF maundy_thursday(y) <= d /\ d < easter(y)
        THEN "Paschal Triduum"
    ELSE IF easter(y) <= d /\ d < pentecost(y)
        THEN "Eastertide"
    ELSE IF pentecost(y) <= d /\ d < Date(y, 10, 31)
        THEN "Time after Pentecost"
    ELSE IF Date(y, 10, 31) <= d /\ d < Date(y, 11, 3)
        THEN "Hallowtide"
    ELSE IF Date(y, 11, 3) <= d /\ d < liturgical_year_end(y)
        THEN "Time after Pentecost"
    ELSE "ValueError"

\* from_date with Hallowtide ending a day early, on November 2.
from_date_short_hallowtide(d) ==
    LET y == liturgical_year(d) IN
    IF d \in {fat_thursday(y), shrove_monday(y), mardi_gras(y)}
        THEN "Shrovetide"
    ELSE IF liturgical_year_start(y) <= d /\ d < Date(y - 1, 12, 25)
        THEN "Advent"
    ELSE IF Date(y - 1, 12, 25) <= d /\ d < Date(y, 1, 6)
        THEN "Christmastide"
    ELSE IF Date(y, 1, 6) <= d /\ d < septuagesima(y)
        THEN "Time after Epiphany"
    ELSE IF septuagesima(y) <= d /\ d < ash_wednesday(y)
        THEN "Septuagesima"
    ELSE IF ash_wednesday(y) <= d /\ d < passion_sunday(y)
        THEN "Lent"
    ELSE IF passion_sunday(y) <= d /\ d < palm_sunday(y)
        THEN "Passiontide"
    ELSE IF palm_sunday(YearOf(d)) <= d /\ d < maundy_thursday(y)
        THEN "Holy Week"
    ELSE IF maundy_thursday(y) <= d /\ d < easter(y)
        THEN "Paschal Triduum"
    ELSE IF easter(y) <= d /\ d < pentecost(y)
        THEN "Eastertide"
    ELSE IF pentecost(y) <= d /\ d < Date(y, 10, 31)
        THEN "Time after Pentecost"
    ELSE IF Date(y, 10, 31) <= d /\ d < Date(y, 11, 2)
        THEN "Hallowtide"
    ELSE IF Date(y, 11, 2) <= d /\ d <= liturgical_year_end(y)
        THEN "Time after Pentecost"
    ELSE "ValueError"

\* The season key LiturgicalSeason.from_date computes for a date, or
\* "ValueError" when no test matches.  The Holy Week test reads Palm Sunday
\* of the date's civil year, the other tests read the liturgical year.
from_date(d) ==
    LET y == liturgical_year(d) IN
    IF d \in {fat_thursday(y), shrove_monday(y), mardi_gras(y)}
        THEN "Shrovetide"
    ELSE IF liturgical_year_start(y) <= d /\ d < Date(y - 1, 12, 25)
        THEN "Advent"
    ELSE IF Date(y - 1, 12, 25) <= d /\ d < Date(y, 1, 6)
        THEN "Christmastide"
    ELSE IF Date(y, 1, 6) <= d /\ d < septuagesima(y)
        THEN "Time after Epiphany"
    ELSE IF septuagesima(y) <= d /\ d < ash_wednesday(y)
        THEN "Septuagesima"
    ELSE IF ash_wednesday(y) <= d /\ d < passion_sunday(y)
        THEN "Lent"
    ELSE IF passion_sunday(y) <= d /\ d < palm_sunday(y)
        THEN "Passiontide"
    ELSE IF palm_sunday(YearOf(d)) <= d /\ d < maundy_thursday(y)
        THEN "Holy Week"
    ELSE IF maundy_thursday(y) <= d /\ d < easter(y)
        THEN "Paschal Triduum"
    ELSE IF easter(y) <= d /\ d < pentecost(y)
        THEN "Eastertide"
    ELSE IF pentecost(y) <= d /\ d < Date(y, 10, 31)
        THEN "Time after Pentecost"
    ELSE IF Date(y, 10, 31) <= d /\ d < Date(y, 11, 3)
        THEN "Hallowtide"
    ELSE IF Date(y, 11, 3) <= d /\ d <= liturgical_year_end(y)
        THEN "Time after Pentecost"
    ELSE "ValueError"

(***************************************************************************)
(* utils.py: ORDINALS, and the strftime('%B %-d') key of a date.           *)
(***************************************************************************)
\* ORDINALS without its last key, 27.
ORDINALS_to_twenty_six ==
    <<"First", "Second", "Third", "Fourth", "Fifth", "Sixth", "Seventh",
      "Eighth", "Ninth", "Tenth", "Eleventh", "Twelfth", "Thirteenth",
      "Fourteenth", "Fifteenth", "Sixteenth", "Seventeenth", "Eighteenth",
      "Nineteenth", "Twentieth", "Twenty-first", "Twenty-second",
      "Twenty-third", "Twenty-fourth", "Twenty-fifth", "Twenty-sixth">>

ORDINALS ==
    <<"First", "Second", "Third", "Fourth", "Fifth", "Sixth", "Seventh",
      "Eighth", "Ninth", "Tenth", "Eleventh", "Twelfth", "Thirteenth",
      "Fourteenth", "Fifteenth", "Sixteenth", "Seventeenth", "Eighteenth",
      "Nineteenth", "Twentieth", "Twenty-first", "Twenty-second",
      "Twenty-third", "Twenty-fourth", "Twenty-fifth", "Twenty-sixth",
      "Twenty-seventh">>

\* date.strftime('%B %-d'): the month and the day of the month, the key of
\* FIXED_FEASTS_DATA.  The month is estimated from the day of the year and
\* corrected, as datetime does.
date_str(n) ==
    LET y   == YearOf(n)
        n0  == n - DaysBeforeYear(y) - 1
        m0  == (n0 + 50) \div 32
        m   == IF DaysBeforeMonth(y, m0) > n0 THEN m0 - 1 ELSE m0
    IN  <<m, n0 - DaysBeforeMonth(y, m) + 1>>

(***************************************************************************)
(* tridentine_calendar.py: LiturgicalCalendarEvent                         *)
(*                                                                         *)
(* An event keeps the fields the precedence sort and the lookups read.  A  *)
(* name is the sequence of the strings the code concatenates.  A rank of 0 *)
(* is None (no class), and a liturgical_event of FALSE is False or None:   *)
(* the code tests both only for truth.                                     *)
(***************************************************************************)
NoName == <<>>

\* LiturgicalCalendarEvent(date, name, rank=..., liturgical_event=..., addition=...)
LiturgicalCalendarEvent(d, name, rank, liturgical_event, addition) ==
    [date             |-> d,
     name             |-> name,
     rank             |-> rank,
     liturgical_event |-> liturgical_event,
     addition         |-> addition,
     season           |-> from_date(d)]

\* LiturgicalCalendarEvent.from_json(date, json_obj, name)
from_json(d, json_obj, name) ==
    LiturgicalCalendarEvent(
        d,
        IF json_obj.name # NoName THEN json_obj.name ELSE name,
        json_obj.class,
        json_obj.liturgical_event,
        json_obj.addition)

\* _feast_sort_key giving every event the key of an event without a rank:
\* the stable sort then leaves the list as appended.
feast_sort_key_unranked(feast) == 8

\* _feast_sort_key giving an event without a liturgy or without a rank the
\* smallest key.
feast_sort_key_unranked_first(feast) ==
    IF ~feast.liturgical_event \/ feast.rank = 0 THEN 0
    ELSE IF feast.addition THEN 2 * feast.rank + 1
    ELSE 2 * feast.rank

\* _feast_sort_key(feast), doubled to stay in the integers: 4 is 8, rank + .5
\* is 2 * rank + 1, rank is 2 * rank.
feast_sort_key(feast) ==
    IF ~feast.liturgical_event \/ feast.rank = 0 THEN 8
    ELSE IF feast.addition THEN 2 * feast.rank + 1
    ELSE 2 * feast.rank

\* A sort that is not stable: events of equal keys come out in the reverse
\* of the order they went in.
sorted_ties_reversed(events) ==
    LET n      == Len(events)
        key    == [i \in 1..n |-> feast_sort_key(events[i])]
        pos(i) == 1 + Cardinality({j \in 1..n :
                        key[j] < key[i] \/ (key[j] = key[i] /\ j > i)})
    IN  [p \in 1..n |-> events[CHOOSE i \in 1..n : pos(i) = p]]

\* sorted(events, key=_feast_sort_key): a stable sort.  The event at index i
\* moves behind the events of a smaller key and the earlier events of its key.
sorted(events) ==
    LET n      == Len(events)
        key    == [i \in 1..n |-> feast_sort_key(events[i])]
        pos(i) == 1 + Cardinality({j \in 1..n :
                        key[j] < key[i] \/ (key[j] = key[i] /\ j < i)})
    IN  [p \in 1..n |-> events[CHOOSE i \in 1..n : pos(i) = p]]

(***************************************************************************)
(* tridentine_calendar.py: LiturgicalYear                                  *)
(***************************************************************************)
\* function_name_pairs: the movable feasts in registry order, each with the
\* dates its function returns (one date, or the dates of a list).
function_name_pairs(y) ==
    << [dates |-> <<gaudete_sunday(y)>>, name |-> "Gaudete Sunday"],
       [dates |-> advent_embertide(y), name |-> "Advent Embertide"],
       [dates |-> <<sunday_within_the_octave_of_xmas(y)>>,
        name |-> "Sunday within the Octave of Christmas"],
       [dates |-> <<holy_name(y)>>, name |-> "The Holy Name"],
       [dates |-> <<holy_family(y)>>, name |-> "The Holy Family"],
       [dates |-> <<plough_monday(y)>>, name |-> "Plough Monday"],
       [dates |-> <<septuagesima(y)>>, name |-> "Septuagesima"],
       [dates |-> <<sexagesima(y)>>, name |-> "Sexagesima"],
       [dates |-> <<quinquagesima(y)>>, name |-> "Quinquagesima"],
       [dates |-> <<fat_thursday(y)>>, name |-> "Fat Thursday"],
       [dates |-> <<shrove_monday(y)>>, name |-> "Shrove Monday"],
       [dates |-> <<mardi_gras(y)>>, name |-> "Mardi Gras"],
       [dates |-> <<ash_wednesday(y)>>, name |-> "Ash Wednesday"],
       [dates |-> lenten_embertide(y), name |-> "Lenten Embertide"],
       [dates |-> <<st_matthias(y)>>, name |-> "St. Matthias"],
       [dates |-> <<st_gabriel_of_our_lady_of_sorrows(y)>>,
        name |-> "St. Gabriel of Our Lady of Sorrows"],
       [dates |-> <<lady_day(y)>>, name |-> "Lady Day"],
       [dates |-> <<laetare_sunday(y)>>, name |-> "Laetare Sunday"],
       [dates |-> <<passion_sunday(y)>>, name |-> "Passion Sunday"],
       [dates |-> <<seven_sorrows(y)>>, name |-> "The Seven Sorrows"],
       [dates |-> <<palm_sunday(y)>>, name |-> "Palm Sunday"],
       [dates |-> <<palm_sunday(y) + 1>>, name |-> "Monday of Holy Week"],
       [dates |-> <<palm_sunday(y) + 2>>, name |-> "Tuesday of Holy Week"],
       [dates |-> <<spy_wednesday(y)>>, name |-> "Spy Wednesday"],
       [dates |-> <<maundy_thursday(y)>>, name |-> "Maundy Thursday"],
       [dates |-> <<good_friday(y)>>, name |-> "Good Friday"],
       [dates |-> <<holy_saturday(y)>>, name |-> "Holy Saturday"],
       [dates |-> <<easter(y)>>, name |-> "Easter"],
       [dates |-> <<easter(y) + 1>>, name |-> "Easter Monday"],
       [dates |-> <<easter(y) + 2>>, name |-> "Easter Tuesday"],
       [dates |-> <<easter(y) + 3>>, name |-> "Easter Wednesday"],
       [dates |-> <<easter(y) + 4>>, name |-> "Easter Thursday"],
       [dates |-> <<easter(y) + 5>>, name |-> "Easter Friday"],
       [dates |-> <<easter(y) + 6>>, name |-> "Easter Saturday"],
       [dates |-> <<quasimodo_sunday(y)>>, name |-> "Quasimodo Sunday"],
       [dates |-> <<jubilate_sunday(y)>>, name |-> "Jubilate Sunday"],
       [dates |-> <<misericordia_sunday(y)>>, name |-> "Misericordia Sunday"],
       [dates |-> <<cantate_sunday(y)>>, name |-> "Cantate Sunday"],
       [dates |-> <<major_rogation(y)>>, name |-> "Major Rogation"],
       [dates |-> <<ascension(y)>>, name |-> "Ascension"],
       [dates |-> minor_rogation(y), name |-> "Minor Rogation"],
       [dates |-> <<pentecost(y)>>, name |-> "Pentecost"],
       [dates |-> <<pentecost(y) + 1>>, name |-> "Pentecost Monday"],
       [dates |-> <<pentecost(y) + 2>>, name |-> "Pentecost Tuesday"],
       [dates |-> <<pentecost(y) + 4>>, name |-> "Thursday in Pentecost Week"],
       [dates |-> whit_embertide(y), name |-> "Whit Embertide"],
       [dates |-> <<trinity_sunday(y)>>, name |-> "Trinity Sunday"],
       [dates |-> <<corpus_christi(y)>>, name |-> "Corpus Christi"],
       [dates |-> <<sacred_heart(y)>>, name |-> "The Sacred Heart"],
       [dates |-> <<peters_pence(y)>>, name |-> "Peter's Pence"],
       [dates |-> michaelmas_embertide(y), name |-> "Michaelmas Embertide"],
       [dates |-> <<christ_the_king(y)>>, name |-> "Christ the King"] >>

\* The names MOVABLE_FEASTS_DATA is read at.
MovableFeastNames ==
    {function_name_pairs(MinYear)[i].name :
        i \in 1..Len(function_name_pairs(MinYear))}

\* The events of `pairs` in the order they are appended: one event per date
\* of each pair.  Slot q of the pair-major walk is date i of pair k.
EventsOfPairs(pairs) ==
    LET width == CHOOSE w \in {Len(pairs[k].dates) : k \in DOMAIN pairs} :
                     \A k \in DOMAIN pairs : Len(pairs[k].dates) <= w
        InPair(s) == s.i <= Len(pairs[s.k].dates)
        slots == SelectSeq(
                     [q \in 1..(Len(pairs) * width) |->
                         [k |-> (q - 1) \div width + 1, i |-> ((q - 1) % width) + 1]],
                     InPair)
    IN  [p \in 1..Len(slots) |->
            from_json(pairs[slots[p].k].dates[slots[p].i],
                      MOVABLE_FEASTS_DATA[pairs[slots[p].k].name],
                      <<pairs[slots[p].k].name>>)]

\* for date_fn, name in function_name_pairs: the events of the movable feasts.
MovableEvents(y) == EventsOfPairs(function_name_pairs(y))

\* A loop that names one Sunday a week with i, i + 1, ... while the date is
\* at most `last`: the <<i, date>> pairs it visits.
SundayLoop(i, d, last) ==
    LET n == IF d <= last THEN (last - d) \div 7 + 1 ELSE 0
    IN  [j \in 1..n |-> [i |-> i + j - 1, date |-> d + 7 * (j - 1)]]

\* The Sundays after Epiphany: from the week after the Holy Family, while
\* the date is before Septuagesima.
EpiphanyLoop(y) == SundayLoop(2, holy_family(y) + 7, septuagesima(y) - 1)

\* The loop of the Sundays after Pentecost counting from 1.
PentecostLoop_from_first(y) ==
    SundayLoop(1, trinity_sunday(y) + 7, liturgical_year_end(y) - 7)

\* The Sundays after Pentecost: from the week after Trinity Sunday, while the
\* date is at most a week before the end of the liturgical year.
PentecostLoop(y) ==
    SundayLoop(2, trinity_sunday(y) + 7, liturgical_year_end(y) - 7)

\* The positional Sundays, in the order they are appended.  An index that
\* ORDINALS lacks is kept as the name <<"KeyError">>: the lookup raises.
Ordinal(i) == IF i \in DOMAIN ORDINALS THEN ORDINALS[i] ELSE "KeyError"

SundayEvents(y) ==
    LET start == liturgical_year_start(y)
        epi   == EpiphanyLoop(y)
        pen   == PentecostLoop(y)
    IN  << LiturgicalCalendarEvent(start, <<ORDINALS[1], " Sunday of Advent">>,
                                   1, TRUE, FALSE),
           LiturgicalCalendarEvent(start + 7, <<ORDINALS[2], " Sunday of Advent">>,
                                   1, TRUE, FALSE),
           LiturgicalCalendarEvent(start + 21, <<ORDINALS[4], " Sunday of Advent">>,
                                   1, TRUE, FALSE) >>
        \o [k \in 1..Len(epi) |->
               LiturgicalCalendarEvent(
                   epi[k].date, <<Ordinal(epi[k].i), " Sunday after Epiphany">>,
                   2, TRUE, FALSE)]
        \o [i \in 1..3 |->
               LiturgicalCalendarEvent(
                   quinquagesima(y) + 7 * i, <<ORDINALS[i], " Sunday of Lent">>,
                   1, TRUE, FALSE)]
        \o << LiturgicalCalendarEvent(cantate_sunday(y) + 7,
                                      <<"Fifth Sunday after Easter">>, 1, TRUE, FALSE),
              LiturgicalCalendarEvent(ascension(y) + 3,
                                      <<"Sunday after Ascension">>, 1, TRUE, FALSE) >>
        \o [k \in 1..Len(pen) |->
               LiturgicalCalendarEvent(
                   pen[k].date, <<Ordinal(pen[k].i), " Sunday after Pentecost">>,
                   2, TRUE, FALSE)]
        \o << LiturgicalCalendarEvent(trinity_sunday(y) + 7 + 7 * Len(pen),
                                      <<"Last Sunday after Pentecost">>, 2, TRUE, FALSE) >>

\* The fixed records of a date whose class is 1 (first = TRUE), or is not 1,
\* as events in the order of the metadata.
FixedEvents(d, first) ==
    LET key  == date_str(d)
        recs == IF key \in DOMAIN FIXED_FEASTS_DATA
                    THEN FIXED_FEASTS_DATA[key] ELSE <<>>
        Pass(elem) == (elem.class = 1) = first
        kept == SelectSeq(recs, Pass)
    IN  [i \in 1..Len(kept) |-> from_json(d, kept[i], NoName)]

\* The initialisation loop stopping a day early (date < liturgical_year_end).
DaysOfLiturgicalYear_open_end(y) ==
    liturgical_year_start(y)..(liturgical_year_end(y) - 1)

\* iterate over the liturgical year: liturgical_year_start(y), one day at a
\* time while date <= liturgical_year_end(y).
DaysOfLiturgicalYear(y) == liturgical_year_start(y)..liturgical_year_end(y)

\* The days of the fixed table that hold a record without a name: is_fixed()
\* reads elem['name'] of every record of the event's day, and raises a
\* KeyError there.
nameless_days ==
    {key \in DOMAIN FIXED_FEASTS_DATA :
        \E i \in DOMAIN FIXED_FEASTS_DATA[key] :
            FIXED_FEASTS_DATA[key][i].name = NoName}

\* LiturgicalCalendarEvent.__init__ raising: no color is passed, so the color
\* is derived, and is_fixed() is called when the event has a special liturgy
\* and a rank other than 4.
init_raises(d, rank, liturgical_event) ==
    liturgical_event /\ rank # 4 /\ date_str(d) \in nameless_days

\* The passes of the constructor over the days, the movable events and the
\* positional Sundays: an empty list for every day; the fixed records of
\* class 1; the movable feasts; the positional Sundays; the other fixed
\* records, each day sorted after its last append.  A KeyError is raised
\* when ORDINALS lacks an index, when an append addresses a date that the
\* calendar lacks, or when the constructor of an event raises it.
Assemble(y, days, movable, sundays) ==
    IF \/ \E k \in DOMAIN sundays : sundays[k].name[1] = "KeyError"
       \/ \E k \in DOMAIN movable : movable[k].date \notin days
       \/ \E k \in DOMAIN sundays : sundays[k].date \notin days
       \/ /\ nameless_days # {}
          /\ \/ \E k \in DOMAIN movable :
                   init_raises(movable[k].date, movable[k].rank,
                               movable[k].liturgical_event)
             \/ \E k \in DOMAIN sundays :
                   init_raises(sundays[k].date, sundays[k].rank,
                               sundays[k].liturgical_event)
             \/ \E d \in days :
                   /\ date_str(d) \in nameless_days
                   /\ \E i \in DOMAIN FIXED_FEASTS_DATA[date_str(d)] :
                         init_raises(d, FIXED_FEASTS_DATA[date_str(d)][i].class,
                             FIXED_FEASTS_DATA[date_str(d)][i].liturgical_event)
    THEN [raised |-> "KeyError"]
    ELSE [raised   |-> "none",
          year     |-> y,
          liturgical_year_start |-> liturgical_year_start(y),
          liturgical_year_end   |-> liturgical_year_end(y),
          calendar |->
              [d \in days |->
                  LET OnDay(e) == e.date = d
                  IN  sorted(<<>> \o FixedEvents(d, TRUE)
                                 \o SelectSeq(movable, OnDay)
                                 \o SelectSeq(sundays, OnDay)
                                 \o FixedEvents(d, FALSE))]]

\* LiturgicalYear(year): the object the constructor leaves, or the KeyError
\* it raises.
LiturgicalYear(y) ==
    Assemble(y, DaysOfLiturgicalYear(y), MovableEvents(y), SundayEvents(y))

(***************************************************************************)
(* The caller: it picks an operation and its argument, and runs it.        *)
(***************************************************************************)
Dates == Date(MinDateYear, 1, 1)..Date(MaxDateYear, 12, 31)

\* computus(year)
CallComputus ==
    /\ pc = "call" /\ op = "computus"
    /\ ret' = computus(year)
    /\ pc' = "done"
    /\ lru_cache' = lru_touch(lru_cache, year)
    /\ UNCHANGED <<op, year, date, FIXED_FEASTS_DATA, MOVABLE_FEASTS_DATA,
                   liturgical_years, ics_file>>

\* liturgical_year_start(year)
CallLiturgicalYearStart ==
    /\ pc = "call" /\ op = "liturgical_year_start"
    /\ ret' = liturgical_year_start(year)
    /\ pc' = "done"
    /\ UNCHANGED <<op, year, date, FIXED_FEASTS_DATA, MOVABLE_FEASTS_DATA,
                   liturgical_years, ics_file, lru_cache>>

\* liturgical_year_end(year)
CallLiturgicalYearEnd ==
    /\ pc = "call" /\ op = "liturgical_year_end"
    /\ ret' = liturgical_year_end(year)
    /\ pc' = "done"
    /\ UNCHANGED <<op, year, date, FIXED_FEASTS_DATA, MOVABLE_FEASTS_DATA,
                   liturgical_years, ics_file, lru_cache>>

\* liturgical_year(date)
CallLiturgicalYear ==
    /\ pc = "call" /\ op = "liturgical_year"
    /\ ret' = liturgical_year(date)
    /\ pc' = "done"
    /\ UNCHANGED <<op, year, date, FIXED_FEASTS_DATA, MOVABLE_FEASTS_DATA,
                   liturgical_years, ics_file, lru_cache>>

\* LiturgicalSeason.from_date(date)
CallFromDate ==
    /\ pc = "call" /\ op = "from_date"
    /\ ret' = from_date(date)
    /\ pc' = "done"
    /\ lru_cache' = lru_touch(lru_cache, liturgical_year(date))
    /\ UNCHANGED <<op, year, date, FIXED_FEASTS_DATA, MOVABLE_FEASTS_DATA,
                   liturgical_years, ics_file>>

\* lady_day(year): Palm Sunday and Quasimodo Sunday are read from computus.
CallLadyDay ==
    /\ pc = "call" /\ op = "lady_day"
    /\ ret' = lady_day(year)
    /\ pc' = "done"
    /\ lru_cache' = lru_touch(lru_cache, year)
    /\ UNCHANGED <<op, year, date, FIXED_FEASTS_DATA, MOVABLE_FEASTS_DATA,
                   liturgical_years, ics_file>>

\* holy_name(year)
CallHolyName ==
    /\ pc = "call" /\ op = "holy_name"
    /\ ret' = holy_name(year)
    /\ pc' = "done"
    /\ UNCHANGED <<op, year, date, FIXED_FEASTS_DATA, MOVABLE_FEASTS_DATA,
                   liturgical_years, ics_file, lru_cache>>

\* peters_pence(year)
CallPetersPence ==
    /\ pc = "call" /\ op = "peters_pence"
    /\ ret' = peters_pence(year)
    /\ pc' = "done"
    /\ UNCHANGED <<op, year, date, FIXED_FEASTS_DATA, MOVABLE_FEASTS_DATA,
                   liturgical_years, ics_file, lru_cache>>

\* christ_the_king(year)
CallChristTheKing ==
    /\ pc = "call" /\ op = "christ_the_king"
    /\ ret' = christ_the_king(year)
    /\ pc' = "done"
    /\ UNCHANGED <<op, year, date, FIXED_FEASTS_DATA, MOVABLE_FEASTS_DATA,
                   liturgical_years, ics_file, lru_cache>>

\* ash_wednesday(year): Easter is read from computus.
CallAshWednesday ==
    /\ pc = "call" /\ op = "ash_wednesday"
    /\ ret' = ash_wednesday(year)
    /\ pc' = "done"
    /\ lru_cache' = lru_touch(lru_cache, year)
    /\ UNCHANGED <<op, year, date, FIXED_FEASTS_DATA, MOVABLE_FEASTS_DATA,
                   liturgical_years, ics_file>>

\* palm_sunday(year): Easter is read from computus.
CallPalmSunday ==
    /\ pc = "call" /\ op = "palm_sunday"
    /\ ret' = palm_sunday(year)
    /\ pc' = "done"
    /\ lru_cache' = lru_touch(lru_cache, year)
    /\ UNCHANGED <<op, year, date, FIXED_FEASTS_DATA, MOVABLE_FEASTS_DATA,
                   liturgical_years, ics_file>>

\* maundy_thursday(year): Easter is read from computus.
CallMaundyThursday ==
    /\ pc = "call" /\ op = "maundy_thursday"
    /\ ret' = maundy_thursday(year)
    /\ pc' = "done"
    /\ lru_cache' = lru_touch(lru_cache, year)
    /\ UNCHANGED <<op, year, date, FIXED_FEASTS_DATA, MOVABLE_FEASTS_DATA,
                   liturgical_years, ics_file>>

\* major_rogation(year): Easter is read from computus.
CallMajorRogation ==
    /\ pc = "call" /\ op = "major_rogation"
    /\ ret' = major_rogation(year)
    /\ pc' = "done"
    /\ lru_cache' = lru_touch(lru_cache, year)
    /\ UNCHANGED <<op, year, date, FIXED_FEASTS_DATA, MOVABLE_FEASTS_DATA,
                   liturgical_years, ics_file>>

\* ascension(year): Easter is read from computus.
CallAscension ==
    /\ pc = "call" /\ op = "ascension"
    /\ ret' = ascension(year)
    /\ pc' = "done"
    /\ lru_cache' = lru_touch(lru_cache, year)
    /\ UNCHANGED <<op, year, date, FIXED_FEASTS_DATA, MOVABLE_FEASTS_DATA,
                   liturgical_years, ics_file>>

\* pentecost(year): Easter is read from computus.
CallPentecost ==
    /\ pc = "call" /\ op = "pentecost"
    /\ ret' = pentecost(year)
    /\ pc' = "done"
    /\ lru_cache' = lru_touch(lru_cache, year)
    /\ UNCHANGED <<op, year, date, FIXED_FEASTS_DATA, MOVABLE_FEASTS_DATA,
                   liturgical_years, ics_file>>

\* LiturgicalYear(year)
NewLiturgicalYear ==
    /\ pc = "call" /\ op = "LiturgicalYear"
    /\ ret' = LiturgicalYear(year)
    /\ pc' = "done"
    /\ lru_cache' = lru_touch(lru_cache, year)
    /\ UNCHANGED <<op, year, date, FIXED_FEASTS_DATA, MOVABLE_FEASTS_DATA,
                   liturgical_years, ics_file>>

\* LiturgicalYear.__getitem__(key): self.calendar[key].
LiturgicalYear_getitem(self, key) ==
    IF key \in DOMAIN self.calendar
    THEN [raised |-> "none", value |-> self.calendar[key]]
    ELSE [raised |-> "KeyError"]

\* LiturgicalCalendar.__getitem__ answering a year that is not loaded with an
\* empty list (liturgical_years.get with a default).
LiturgicalCalendar_getitem_empty_default(key) ==
    IF liturgical_year(key) \in DOMAIN liturgical_years
    THEN LiturgicalYear_getitem(liturgical_years[liturgical_year(key)], key)
    ELSE [raised |-> "none", value |-> <<>>]

\* LiturgicalCalendar.__getitem__ looking the date up under its civil year.
LiturgicalCalendar_getitem_civil_year(key) ==
    IF YearOf(key) \in DOMAIN liturgical_years
    THEN LiturgicalYear_getitem(liturgical_years[YearOf(key)], key)
    ELSE [raised |-> "KeyError"]

\* LiturgicalCalendar.__getitem__(key):
\* self.liturgical_years[utils.liturgical_year(key)][key].
LiturgicalCalendar_getitem(key) ==
    IF liturgical_year(key) \in DOMAIN liturgical_years
    THEN LiturgicalYear_getitem(liturgical_years[liturgical_year(key)], key)
    ELSE [raised |-> "KeyError"]

\* The `years` argument of LiturgicalCalendar: one year, or a list of years
\* (in any order, a year possibly twice).
LoadableYears == 2018..MaxCalendarYear

YearsInputs ==
    {[isint |-> TRUE, list |-> <<y>>] : y \in LoadableYears}
    \cup {[isint |-> FALSE, list |-> l] :
             l \in {<<>>} \cup [1..1 -> LoadableYears] \cup [1..2 -> LoadableYears]}

\* The dates looked up: the days within KeySpan days of a boundary of a
\* loadable liturgical year, and the Easter days.
KeyDates ==
    {d \in (liturgical_year_start(2018) - KeySpan)
               ..(liturgical_year_end(MaxCalendarYear) + KeySpan) :
        \/ \E y \in LoadableYears :
              \/ liturgical_year_start(y) - KeySpan <= d
                 /\ d <= liturgical_year_start(y) + KeySpan
              \/ liturgical_year_end(y) - KeySpan <= d
                 /\ d <= liturgical_year_end(y) + KeySpan
        \/ \E y \in LoadableYears : d = computus_body(y)}

\* The end of LiturgicalCalendar(years) with the assembled years: a KeyError
\* of an assembly leaves no calendar.  The years are assembled in the order
\* of the list, up to the first one that raises, and each assembly calls
\* computus with its year.
Constructed(years, assembled) ==
    LET failing == {i \in DOMAIN years :
                       \E y \in DOMAIN assembled :
                          y = years[i] /\ assembled[y].raised # "none"} IN
    IF failing # {}
    THEN /\ liturgical_years' = <<>>
         /\ ret' = [raised |-> "KeyError"]
         /\ pc' = "raised"
         /\ lru_cache' =
               lru_touch_all(lru_cache,
                             SubSeq(years, 1, CHOOSE i \in failing :
                                                \A j \in failing : i <= j))
    ELSE /\ liturgical_years' = assembled
         /\ ret' = [raised |-> "none"]
         /\ pc' = "constructed"
         /\ lru_cache' = lru_touch_all(lru_cache, years)

\* LiturgicalCalendar(years): a single year is made a list of one year; each
\* year of the list is assembled and stored under its number.
NewLiturgicalCalendar ==
    /\ pc = "call" /\ op = "LiturgicalCalendar"
    /\ \E years \in YearsInputs :
          Constructed(years.list,
                      [y \in {years.list[i] : i \in DOMAIN years.list} |->
                          LiturgicalYear(y)])
    /\ UNCHANGED <<op, year, date, FIXED_FEASTS_DATA, MOVABLE_FEASTS_DATA,
                   ics_file>>

\* calendar[key] on the constructed LiturgicalCalendar.
GetItem ==
    /\ pc = "constructed" /\ op = "LiturgicalCalendar"
    /\ \E key \in KeyDates :
          /\ date' = key
          /\ ret' = LiturgicalCalendar_getitem(key)
    /\ pc' = "done"
    /\ UNCHANGED <<op, year, FIXED_FEASTS_DATA, MOVABLE_FEASTS_DATA,
                   liturgical_years, ics_file, lru_cache>>

(***************************************************************************)
(* Calls in one process, one after the other, that read computus through   *)
(* its cache: computus itself, and the assembly of a liturgical year.      *)
(***************************************************************************)
\* The years of the calls: the year of the tests and the three after it.
MemoYears == {2018, 2019, 2020, 2021}

\* feast_dates.computus(y)
CallMemoized ==
    /\ pc = "call" /\ op = "memo"
    /\ \E y \in MemoYears :
          /\ year' = y
          /\ ret' = [call |-> "computus", value |-> computus(y)]
          /\ lru_cache' = lru_touch(lru_cache, y)
    /\ UNCHANGED <<op, pc, date, FIXED_FEASTS_DATA, MOVABLE_FEASTS_DATA,
                   liturgical_years, ics_file>>

\* The end of LiturgicalYear(y) with the assembled year: the first object
\* assembled for a year is kept in liturgical_years.
Assembled(y, assembled) ==
    /\ year' = y
    /\ ret' = [call |-> "LiturgicalYear", value |-> assembled,
               again |-> y \in DOMAIN liturgical_years]
    /\ liturgical_years' =
          IF y \in DOMAIN liturgical_years THEN liturgical_years
          ELSE [k \in DOMAIN liturgical_years \cup {y} |->
                   IF k = y THEN assembled ELSE liturgical_years[k]]
    /\ lru_cache' = lru_touch(lru_cache, y)

\* LiturgicalYear(y), once more or for the first time.
AssembleAgain ==
    /\ pc = "call" /\ op = "memo"
    /\ \E y \in MemoYears : Assembled(y, LiturgicalYear(y))
    /\ UNCHANGED <<op, pc, date, FIXED_FEASTS_DATA, MOVABLE_FEASTS_DATA,
                   ics_file>>

(***************************************************************************)
(* tridentine_calendar.py: the ICS export.  An event of the file keeps its *)
(* summary and its start date; the file is the bag of its events, their    *)
(* order left out.                                                         *)
(***************************************************************************)
\* No file under the name.
NoFile == [exists |-> FALSE, events |-> EmptyBag]

\* ics_name of element i of a day list in LiturgicalYear.to_ical: an outranked
\* liturgical event that is no addition is marked, and so is an event that is
\* not liturgical.
ics_name(events, i) ==
    LET elem   == events[i]
        marked == IF i > 1 /\ elem.liturgical_event /\ ~elem.addition
                  THEN <<"> ">> \o elem.name ELSE elem.name
    IN  IF ~elem.liturgical_event THEN <<">> ">> \o marked ELSE marked

\* The lists of years of the calendars exported: different years in
\* ascending order.
ExportYearsInputs ==
    {years \in YearsInputs :
        /\ ~years.isint
        /\ \A i, j \in DOMAIN years.list : i < j => years.list[i] < years.list[j]}

\* LiturgicalCalendar(years) of a calendar that is exported.
NewCalendarToExport ==
    /\ pc = "call" /\ op = "export"
    /\ \E years \in ExportYearsInputs :
          Constructed(years.list,
                      [y \in {years.list[i] : i \in DOMAIN years.list} |->
                          LiturgicalYear(y)])
    /\ UNCHANGED <<op, year, date, FIXED_FEASTS_DATA, MOVABLE_FEASTS_DATA,
                   ics_file>>

\* The event LiturgicalYear.to_ical() adds for element i of the day list of d.
ics_event(self, d, i) ==
    [summary |-> ics_name(self.calendar[d], i), dtstart |-> d]

\* The events LiturgicalYear.to_ical() adds: one per element of every day
\* list from liturgical_year_start to liturgical_year_end.
ics_events(self) ==
    UNION {{ics_event(self, d, i) : i \in DOMAIN self.calendar[d]} :
           d \in DOMAIN self.calendar}

\* The number of components of LiturgicalYear.to_ical() equal to e.
ics_copies(self, e) ==
    Cardinality({i \in DOMAIN self.calendar[e.dtstart] :
                    ics_event(self, e.dtstart, i) = e})

\* The components of the loaded liturgical years `added`, as
\* LiturgicalCalendar.to_ical and extend_existing_ical add them one by one to
\* the components `events`.  The events of two liturgical years have
\* different dates.
WithYears(events, added) ==
    events (+) [e \in UNION {ics_events(liturgical_years[y]) : y \in added} |->
                   ics_copies(liturgical_years[liturgical_year(e.dtstart)], e)]

\* existing_years of extend_existing_ical: the civil years of the start dates
\* of the events of the file.
existing_years(file) == {YearOf(e.dtstart) : e \in BagToSet(file.events)}

\* LiturgicalCalendar.to_ical() written to the file (opened with 'wb'): the
\* events of every loaded liturgical year replace the file.  The command
\* ends with the export, and its cache with it.
ToIcal ==
    /\ pc = "constructed" /\ op = "export"
    /\ ics_file' = [exists |-> TRUE,
                    events |-> WithYears(EmptyBag, DOMAIN liturgical_years)]
    /\ ret' = [call |-> "to_ical", before |-> ics_file,
               added |-> DOMAIN liturgical_years]
    /\ pc' = "call"
    /\ lru_cache' = <<>>
    /\ UNCHANGED <<op, year, date, FIXED_FEASTS_DATA, MOVABLE_FEASTS_DATA,
                   liturgical_years>>

\* extend_existing_ical without the test of existing_years.
years_to_add_all(file) == DOMAIN liturgical_years

\* The liturgical years extend_existing_ical adds: the loaded years that are
\* not among the existing years.
years_to_add(file) ==
    {y \in DOMAIN liturgical_years : y \notin existing_years(file)}

\* LiturgicalCalendar.extend_existing_ical(filename): the file is read, the
\* loaded liturgical years that are not among the existing years are added
\* to its events, and the file is written.  Opening a missing file raises.
ExtendExistingIcal ==
    /\ pc = "constructed" /\ op = "export"
    /\ IF ~ics_file.exists
       THEN /\ ret' = [call |-> "extend_existing_ical", before |-> ics_file,
                       added |-> {}, raised |-> "FileNotFoundError"]
            /\ UNCHANGED ics_file
       ELSE /\ ics_file' = [exists |-> TRUE,
                            events |-> WithYears(ics_file.events,
                                                 years_to_add(ics_file))]
            /\ ret' = [call |-> "extend_existing_ical", before |-> ics_file,
                       added |-> years_to_add(ics_file), raised |-> "none"]
    /\ pc' = "call"
    /\ lru_cache' = <<>>
    /\ UNCHANGED <<op, year, date, FIXED_FEASTS_DATA, MOVABLE_FEASTS_DATA,
                   liturgical_years>>

(***************************************************************************)
(* Identifiers of the exported components.  gen_uid is utils.py; the       *)
(* generation that reuses the identifiers of a previous export is the      *)
(* reuse_uids_from argument cli.py and the tests pass to                   *)
(* LiturgicalCalendar, described by the specification: a component keeps   *)
(* the identifier the previous export holds for its (summary, start date)  *)
(* pair, and gets a generated one when the pair is not there.  A component *)
(* is a record of summary, dtstart and uid.                                *)
(***************************************************************************)
\* The identifiers gen_uid can return are 1..MaxUids.
MaxUids == 4

\* gen_uid() that can return an identifier issued before.
gen_uid_any(issued) == 1..MaxUids

\* gen_uid(): the set of identifiers a call can return, `issued` being the
\* identifiers returned so far.  The time of the call and eight random
\* characters make the identifier differ from those of the earlier calls.
gen_uid(issued) == {u \in 1..MaxUids : u \notin issued}

\* The (summary, start date) pairs of the components generated: one summary
\* on two days, and another summary.
ReuseComponents ==
    {[summary |-> <<"Christmas">>, dtstart |-> Date(2018, 12, 25)],
     [summary |-> <<"St. Nicholas">>, dtstart |-> Date(2018, 12, 6)],
     [summary |-> <<"Christmas">>, dtstart |-> Date(2019, 12, 25)]}

\* The (summary, start date) pair of a component.
uid_key(e) == [summary |-> e.summary, dtstart |-> e.dtstart]

\* The (summary, start date) pairs and the identifiers of a set of components.
uid_keys(events) == {uid_key(e) : e \in events}
uids_of(events) == {e.uid : e \in events}

\* Generation starts: the components to generate, with or without reuse of
\* the identifiers of the file.
StartGeneration ==
    /\ pc = "call" /\ op = "reuse"
    /\ \E todo \in SUBSET ReuseComponents, reuse \in BOOLEAN :
          /\ todo # {}
          /\ reuse => ics_file.exists
          /\ ret' = [call |-> "to_ical", reuse |-> reuse, todo |-> todo,
                     out |-> {}, issued |-> ret.issued, fresh |-> {},
                     before |-> BagToSet(ics_file.events)]
    /\ pc' = "generating"
    /\ UNCHANGED <<op, year, date, FIXED_FEASTS_DATA, MOVABLE_FEASTS_DATA,
                   liturgical_years, ics_file, lru_cache>>

\* One component is generated: with reuse, and its pair in the previous
\* export, it keeps the identifier issued there; otherwise gen_uid is called.
AddComponent ==
    /\ pc = "generating" /\ op = "reuse"
    /\ \E k \in ret.todo :
          IF ret.reuse /\ k \in uid_keys(ret.before)
          THEN \E e \in ret.before :
                  /\ uid_key(e) = k
                  /\ ret' = [ret EXCEPT !.todo = @ \ {k},
                                        !.out = @ \cup {e}]
          ELSE \E u \in gen_uid(ret.issued) :
                  ret' = [ret EXCEPT
                             !.todo = @ \ {k},
                             !.out = @ \cup {[summary |-> k.summary,
                                              dtstart |-> k.dtstart,
                                              uid |-> u]},
                             !.issued = @ \cup {u},
                             !.fresh = @ \cup {u}]
    /\ UNCHANGED <<op, pc, year, date, FIXED_FEASTS_DATA, MOVABLE_FEASTS_DATA,
                   liturgical_years, ics_file, lru_cache>>

\* The generated calendar is written to the file.
WriteIcal ==
    /\ pc = "generating" /\ op = "reuse"
    /\ ret.todo = {}
    /\ ics_file' = [exists |-> TRUE, events |-> SetToBag(ret.out)]
    /\ ret' = [ret EXCEPT !.call = "written"]
    /\ pc' = "call"
    /\ UNCHANGED <<op, year, date, FIXED_FEASTS_DATA, MOVABLE_FEASTS_DATA,
                   liturgical_years, lru_cache>>

(***************************************************************************)
(* The metadata the package loads: the JSON files are not part of the      *)
(* sources, so the tables are inputs.  The fixed table holds the records   *)
(* the tests name, and one more record on one of a few days; the movable   *)
(* table gives every movable feast the same record.                        *)
(***************************************************************************)
FixedRecord(name, class, liturgical_event, addition) ==
    [name |-> name, class |-> class, liturgical_event |-> liturgical_event,
     addition |-> addition]

BaseFixedData ==
    (<<12, 25>> :> <<FixedRecord(<<"Christmas">>, 1, TRUE, FALSE)>>)
    @@ (<<12, 8>> :> <<FixedRecord(<<"The Immaculate Conception">>, 1, TRUE, FALSE)>>)
    @@ (<<12, 6>> :> <<FixedRecord(<<"St. Nicholas">>, 3, TRUE, FALSE)>>)
    @@ (<<11, 30>> :> <<FixedRecord(<<"St. Andrew">>, 2, TRUE, FALSE)>>)
    @@ (<<10, 31>> :> <<FixedRecord(<<"Halloween">>, 0, FALSE, FALSE)>>)

\* The days the additional record is put on: beside a class 1 record, beside
\* a class 3 record, and on the day of the Major Rogation.
ExtraDays == {<<12, 8>>, <<12, 6>>, <<4, 25>>}

ExtraRecords ==
    {FixedRecord(<<"Extra">>, c, l, a) :
        c \in {0, 1, 3}, l \in BOOLEAN, a \in BOOLEAN}

WithExtra(key, rec) ==
    IF key \in DOMAIN BaseFixedData
    THEN [BaseFixedData EXCEPT ![key] = @ \o <<rec>>]
    ELSE BaseFixedData @@ (key :> <<rec>>)

\* A record of class 2 on September 2, a Sunday after Pentecost in 2018.
SundayRecord == FixedRecord(<<"Extra">>, 2, TRUE, FALSE)

\* A commemoration, a record of class 4, that follows Halloween in the
\* metadata of October 31.
CommemorationRecords == {FixedRecord(<<"Extra">>, 4, TRUE, a) : a \in BOOLEAN}

\* The vigil of class 2 the tests name, on June 28, with a record of class
\* 2 and a record of class 3 after it in the metadata.
VigilRecords ==
    <<FixedRecord(<<"Vigil of SS. Peter & Paul">>, 2, TRUE, FALSE),
      FixedRecord(<<"Extra">>, 2, TRUE, FALSE),
      FixedRecord(<<"Extra">>, 3, TRUE, FALSE)>>

FixedDataInputs ==
    {BaseFixedData} \cup {WithExtra(k, r) : k \in ExtraDays, r \in ExtraRecords}
    \cup {WithExtra(<<9, 2>>, SundayRecord)}
    \cup {WithExtra(<<10, 31>>, r) : r \in CommemorationRecords}
    \cup {BaseFixedData @@ (<<6, 28>> :> VigilRecords)}

MovableRecords ==
    {FixedRecord(NoName, 1, TRUE, FALSE), FixedRecord(NoName, 3, TRUE, FALSE),
     FixedRecord(NoName, 2, TRUE, TRUE), FixedRecord(NoName, 0, FALSE, FALSE)}

MovableDataInputs == {[n \in MovableFeastNames |-> r] : r \in MovableRecords}

\* Metadata with a record that lacks a field: a fixed record without its
\* name, without its class, or without both, on one of ExtraDays, and a
\* movable table whose records have no class.
MalformedRecords ==
    {FixedRecord(n, c, l, FALSE) :
        n \in {NoName, <<"Extra">>}, c \in {0, 1, 3}, l \in BOOLEAN}
    \ {FixedRecord(<<"Extra">>, c, l, FALSE) : c \in {1, 3}, l \in BOOLEAN}

MalformedFixedInputs ==
    {WithExtra(k, r) : k \in ExtraDays, r \in MalformedRecords}

MalformedMovableInputs ==
    {[n \in MovableFeastNames |-> r] :
        r \in {FixedRecord(NoName, 3, TRUE, FALSE),
                FixedRecord(NoName, 0, TRUE, FALSE)}}

(***************************************************************************)
(* tridentine_calendar.py: the color of an event.  SEASON_DATA is not part *)
(* of the sources: the colors of the seasons the tests name are those the  *)
(* tests state, and the color of any other season is an input.             *)
(***************************************************************************)
\* LiturgicalSeason.from_date(date).color as test_from_date states it.
TESTED_SEASON_COLOR ==
    [season \in {"Advent", "Christmastide", "Time after Epiphany",
                 "Septuagesima", "Lent", "Passiontide", "Holy Week",
                 "Eastertide", "Time after Pentecost"} |->
        IF season \in {"Christmastide", "Eastertide"} THEN "White"
        ELSE IF season \in {"Time after Epiphany", "Time after Pentecost"}
             THEN "Green" ELSE "Violet"]

\* The color of a season, `other` being the color of the seasons the tests
\* do not name.
season_color(season, other) ==
    IF season \in DOMAIN TESTED_SEASON_COLOR
    THEN TESTED_SEASON_COLOR[season] ELSE other

\* is_fixed() answering True for every event.
is_fixed_always(d, name) == TRUE

\* LiturgicalCalendarEvent.is_fixed(): the name is among the names of the
\* fixed records of the event's day.
is_fixed(d, name) ==
    /\ date_str(d) \in DOMAIN FIXED_FEASTS_DATA
    /\ \E i \in DOMAIN FIXED_FEASTS_DATA[date_str(d)] :
          FIXED_FEASTS_DATA[date_str(d)][i].name = name

\* The color LiturgicalCalendarEvent.__init__ leaves in self.color; a color
\* argument of "None" is no color.
event_color(d, name, rank, titles, liturgical_event, color, other) ==
    IF color # "None" THEN color
    ELSE IF /\ liturgical_event
            /\ rank # 4
            /\ is_fixed(d, name)
            /\ ~(rank # 1 /\ from_date(d) \in {"Lent", "Passiontide"})
         THEN IF titles \cap {"Martyr", "Apostle", "Evangelist"} # {}
              THEN "Red" ELSE "White"
         ELSE season_color(from_date(d), other)

\* The arguments the events are created with: names of fixed records and of
\* a movable feast, every rank, the titles of the tests, with and without
\* special liturgy, with and without a color.
ColorNames == {<<"St. Nicholas">>, <<"St. Andrew">>, <<"St. Joseph">>,
               <<"Pentecost">>}
ColorTitles == {{}, {"Bishop", "Confessor"}, {"Apostle"}}
Colors == {"White", "Black"}

\* The fixed records of the tests, and one on a day that falls in Lent.
ColorFixedData ==
    BaseFixedData
    @@ (<<3, 19>> :> <<FixedRecord(<<"St. Joseph">>, 1, TRUE, FALSE)>>)

\* LiturgicalCalendarEvent(date, name, rank=..., titles=...,
\* liturgical_event=..., color=...): the season is read from the date, which
\* calls computus, and the color is derived.
NewLiturgicalCalendarEvent ==
    /\ pc = "call" /\ op = "LiturgicalCalendarEvent"
    /\ \E name \in ColorNames, rank \in 0..4, titles \in ColorTitles,
          liturgical_event \in BOOLEAN, color \in {"None", "Black"},
          other \in Colors :
          ret' = [name |-> name, rank |-> rank, titles |-> titles,
                  liturgical_event |-> liturgical_event,
                  explicit |-> color,
                  season |-> from_date(date),
                  season_color |-> season_color(from_date(date), other),
                  color |-> event_color(date, name, rank, titles,
                                        liturgical_event, color, other)]
    /\ pc' = "done"
    /\ lru_cache' = lru_touch(lru_cache, liturgical_year(date))
    /\ UNCHANGED <<op, year, date, FIXED_FEASTS_DATA, MOVABLE_FEASTS_DATA,
                   liturgical_years, ics_file>>

(***************************************************************************)
(* tridentine_calendar.py: LiturgicalCalendarEvent.full_name.  Here a      *)
(* string is the sequence of its characters.                               *)
(***************************************************************************)
LOWERCASE ==
    <<"a", "b", "c", "d", "e", "f", "g", "h", "i", "j", "k", "l", "m", "n",
      "o", "p", "q", "r", "s", "t", "u", "v", "w", "x", "y", "z">>

UPPERCASE ==
    <<"A", "B", "C", "D", "E", "F", "G", "H", "I", "J", "K", "L", "M", "N",
      "O", "P", "Q", "R", "S", "T", "U", "V", "W", "X", "Y", "Z">>

\* c.lower() and c.upper() of one character.
lower(c) ==
    IF \E i \in DOMAIN UPPERCASE : UPPERCASE[i] = c
    THEN LOWERCASE[CHOOSE i \in DOMAIN UPPERCASE : UPPERCASE[i] = c] ELSE c

upper(c) ==
    IF \E i \in DOMAIN LOWERCASE : LOWERCASE[i] = c
    THEN UPPERCASE[CHOOSE i \in DOMAIN LOWERCASE : LOWERCASE[i] = c] ELSE c

\* str.startswith(prefix)
startswith(str, prefix) ==
    Len(prefix) <= Len(str) /\ SubSeq(str, 1, Len(prefix)) = prefix

\* str.split()[0]: the characters from the first one that is no blank up to
\* the next blank; <<>> stands for the IndexError of a string without a word.
first_word(str) ==
    LET words  == {i \in DOMAIN str : str[i] # " "}
        start  == CHOOSE i \in words : \A j \in words : i <= j
        blanks == {i \in DOMAIN str : i > start /\ str[i] = " "}
    IN  IF words = {} THEN <<>>
        ELSE IF blanks = {} THEN SubSeq(str, start, Len(str))
        ELSE SubSeq(str, start,
                    (CHOOSE i \in blanks : \A j \in blanks : i <= j) - 1)

the_feast_of_prefixes ==
    {<<"S", "t", ".">>,
     <<"S", "S", ".">>,
     <<"P", "o", "p", "e">>,
     <<"O", "u", "r", " ", "L", "a", "d", "y">>,
     <<"T", "h", "e">>}

other_the_feasts ==
    {<<"C", "h", "r", "i", "s", "t", " ", "t", "h", "e", " ", "K", "i", "n", "g">>}

\* The first words of the second branch of full_name.
the_feast_of_the_prefixes ==
    {<<"B", "a", "s", "i", "l", "i", "c", "a">>,
     <<"B", "a", "p", "t", "i", "s", "m">>,
     <<"C", "h", "u", "r", "c", "h">>,
     <<"V", "i", "g", "i", "l">>}

\* ORDINALS.values()
ORDINALS_values ==
    {<<"F", "i", "r", "s", "t">>,
     <<"S", "e", "c", "o", "n", "d">>,
     <<"T", "h", "i", "r", "d">>,
     <<"F", "o", "u", "r", "t", "h">>,
     <<"F", "i", "f", "t", "h">>,
     <<"S", "i", "x", "t", "h">>,
     <<"S", "e", "v", "e", "n", "t", "h">>,
     <<"E", "i", "g", "h", "t", "h">>,
     <<"N", "i", "n", "t", "h">>,
     <<"T", "e", "n", "t", "h">>,
     <<"E", "l", "e", "v", "e", "n", "t", "h">>,
     <<"T", "w", "e", "l", "f", "t", "h">>,
     <<"T", "h", "i", "r", "t", "e", "e", "n", "t", "h">>,
     <<"F", "o", "u", "r", "t", "e", "e", "n", "t", "h">>,
     <<"F", "i", "f", "t", "e", "e", "n", "t", "h">>,
     <<"S", "i", "x", "t", "e", "e", "n", "t", "h">>,
     <<"S", "e", "v", "e", "n", "t", "e", "e", "n", "t", "h">>,
     <<"E", "i", "g", "h", "t", "e", "e", "n", "t", "h">>,
     <<"N", "i", "n", "e", "t", "e", "e", "n", "t", "h">>,
     <<"T", "w", "e", "n", "t", "i", "e", "t", "h">>,
     <<"T", "w", "e", "n", "t", "y", "-", "f", "i", "r", "s", "t">>,
     <<"T", "w", "e", "n", "t", "y", "-", "s", "e", "c", "o", "n", "d">>,
     <<"T", "w", "e", "n", "t", "y", "-", "t", "h", "i", "r", "d">>,
     <<"T", "w", "e", "n", "t", "y", "-", "f", "o", "u", "r", "t", "h">>,
     <<"T", "w", "e", "n", "t", "y", "-", "f", "i", "f", "t", "h">>,
     <<"T", "w", "e", "n", "t", "y", "-", "s", "i", "x", "t", "h">>,
     <<"T", "w", "e", "n", "t", "y", "-", "s", "e", "v", "e", "n", "t", "h">>}

\* LiturgicalCalendarEvent.full_name(capitalize) of an event with the name
\* and the rank.
full_name(name, rank, capitalize) ==
    LET first == first_word(name)
        body ==
            IF first \in the_feast_of_prefixes \/ name \in other_the_feasts
            THEN (IF rank # 4 THEN <<"t", "h", "e", " ", "F", "e", "a", "s", "t", " ",
                         "o", "f", " ">>
                  ELSE <<"t", "h", "e", " ", "C", "o", "m", "m", "e", "m",
                          "o", "r", "a", "t", "i", "o", "n", " ", "o", "f",
                          " ">>)
                 \o (IF startswith(name, <<"T", "h", "e">>)
                     THEN <<lower(name[1])>> \o Tail(name) ELSE name)
            ELSE IF first \in the_feast_of_the_prefixes
            THEN (IF rank # 4 THEN <<"t", "h", "e", " ", "F", "e", "a", "s", "t", " ",
                         "o", "f", " ", "t", "h", "e", " ">>
                  ELSE <<"t", "h", "e", " ", "C", "o", "m", "m", "e", "m",
                          "o", "r", "a", "t", "i", "o", "n", " ", "o", "f",
                          " ", "t", "h", "e", " ">>)
                 \o name
            ELSE IF \/ first \in ORDINALS_values
                    \/ startswith(name, <<"L", "a", "s", "t", " ", "S", "u", "n", "d", "a", "y">>)
                    \/ startswith(name, <<"F", "e", "a", "s", "t">>)
            THEN <<"t", "h", "e", " ">> \o name
            ELSE name
    IN  IF capitalize THEN <<upper(body[1])>> \o Tail(body) ELSE body

\* The names full_name is applied to: those of the tests and of the fixed
\* table, one for every prefix the code lists, and names it lists none for.
FullNameInputs ==
    {<<"S", "t", ".", " ", "N", "i", "c", "h", "o", "l", "a", "s">>,
     <<"S", "S", ".", " ", "P", "e", "t", "e", "r", " ", "&", " ", "P", "a", "u",
       "l">>,
     <<"P", "o", "p", "e", " ", "S", "t", ".", " ", "P", "i", "u", "s", " ", "X">>,
     <<"O", "u", "r", " ", "L", "a", "d", "y", " ", "o", "f", " ", "S", "o", "r",
       "r", "o", "w", "s">>,
     <<"O", "u", "r", " ", "L", "a", "d", "y", " ", "o", "f", " ", "G", "u", "a",
       "d", "a", "l", "u", "p", "e">>,
     <<"T", "h", "e", " ", "I", "m", "m", "a", "c", "u", "l", "a", "t", "e", " ",
       "C", "o", "n", "c", "e", "p", "t", "i", "o", "n">>,
     <<"C", "h", "r", "i", "s", "t", " ", "t", "h", "e", " ", "K", "i", "n", "g">>,
     <<"V", "i", "g", "i", "l", " ", "o", "f", " ", "t", "h", "e", " ", "A", "s",
       "s", "u", "m", "p", "t", "i", "o", "n">>,
     <<"B", "a", "s", "i", "l", "i", "c", "a", " ", "o", "f", " ", "S", "t", ".",
       " ", "J", "o", "h", "n", " ", "L", "a", "t", "e", "r", "a", "n">>,
     <<"T", "w", "e", "l", "f", "t", "h", " ", "N", "i", "g", "h", "t">>,
     <<"S", "e", "c", "o", "n", "d", " ", "S", "u", "n", "d", "a", "y", " ", "a",
       "f", "t", "e", "r", " ", "E", "p", "i", "p", "h", "a", "n", "y">>,
     <<"L", "a", "s", "t", " ", "S", "u", "n", "d", "a", "y", " ", "a", "f", "t",
       "e", "r", " ", "P", "e", "n", "t", "e", "c", "o", "s", "t">>,
     <<"F", "e", "a", "s", "t", " ", "o", "f", " ", "t", "h", "e", " ", "H", "o",
       "l", "y", " ", "F", "a", "m", "i", "l", "y">>,
     <<"C", "h", "r", "i", "s", "t", "m", "a", "s">>,
     <<"H", "a", "l", "l", "o", "w", "e", "e", "n">>,
     <<"A", "s", "h", " ", "W", "e", "d", "n", "e", "s", "d", "a", "y">>,
     <<"f", "e", "r", "i", "a", "s", " ", "o", "f", " ", "A", "d", "v", "e", "n",
       "t">>}

\* event.full_name(capitalize) of LiturgicalCalendarEvent(date, name, rank);
\* the rank 0 is rank=None, the default of the constructor.
CallFullName ==
    /\ pc = "call" /\ op = "full_name"
    /\ \E name \in FullNameInputs, rank \in 0..4, capitalize \in BOOLEAN :
          ret' = [name |-> name, rank |-> rank, capitalize |-> capitalize,
                  full_name |-> full_name(name, rank, capitalize)]
    /\ pc' = "done"
    /\ UNCHANGED <<op, year, date, FIXED_FEASTS_DATA, MOVABLE_FEASTS_DATA,
                   liturgical_years, ics_file, lru_cache>>

(***************************************************************************)
(* Specifications.                                                         *)
(***************************************************************************)
\* The date functions read no metadata and no calendar.
NoCalendar ==
    /\ lru_cache = <<>>
    /\ FIXED_FEASTS_DATA = <<>>
    /\ MOVABLE_FEASTS_DATA = <<>>
    /\ liturgical_years = <<>>
    /\ ics_file = NoFile

\* computus applied to every year of Years.
InitComputus ==
    /\ op = "computus" /\ pc = "call"
    /\ year \in Years /\ date = 0 /\ ret = 0
    /\ NoCalendar

NextComputus == CallComputus

SpecComputus == InitComputus /\ [][NextComputus]_vars

\* The liturgical-year boundaries applied to every year of Years, and
\* liturgical_year to every day of Dates.
InitBoundary ==
    /\ pc = "call" /\ ret = 0
    /\ \/ op \in {"liturgical_year_start", "liturgical_year_end"}
          /\ year \in Years /\ date = 0
       \/ op = "liturgical_year" /\ year = 0 /\ date \in Dates
    /\ NoCalendar

NextBoundary ==
    \/ CallLiturgicalYearStart
    \/ CallLiturgicalYearEnd
    \/ CallLiturgicalYear

SpecBoundary == InitBoundary /\ [][NextBoundary]_vars

\* LiturgicalSeason.from_date applied to every day of Dates.
InitSeason ==
    /\ op = "from_date" /\ pc = "call"
    /\ year = 0 /\ date \in Dates /\ ret = 0
    /\ NoCalendar

NextSeason == CallFromDate

SpecSeason == InitSeason /\ [][NextSeason]_vars

\* LiturgicalYear(year) constructed for every year of AssembleYears over the
\* metadata inputs.
InitAssembly ==
    /\ lru_cache = <<>>
    /\ op = "LiturgicalYear" /\ pc = "call"
    /\ year \in AssembleYears /\ date = 0 /\ ret = 0
    /\ FIXED_FEASTS_DATA \in FixedDataInputs
    /\ MOVABLE_FEASTS_DATA \in MovableDataInputs
    /\ liturgical_years = <<>>
    /\ ics_file = NoFile

NextAssembly == NewLiturgicalYear

SpecAssembly == InitAssembly /\ [][NextAssembly]_vars

\* The date of Easter within its 35 days, and whether the year is a leap
\* year: the dates of a liturgical year relative to its Easter depend on
\* these two alone.
EasterClass ==
    [y \in Years |-> <<computus_values[y] - Date(y, 3, 22), isleap(y)>>]
    @@ <<>>

\* The first year of every class among the years, and the years of the
\* tests.
RepresentativeYears(years) ==
    {CHOOSE y \in S : \A z \in S : y <= z :
        S \in {{y \in years : EasterClass[y] = c} : c \in (0..34) \X BOOLEAN}
               \ {{}}}
    \cup AssembleYears

\* LiturgicalYear(year) constructed for a year of every date of Easter, leap
\* and not, over the metadata of the tests.
InitYears ==
    /\ lru_cache = <<>>
    /\ op = "LiturgicalYear" /\ pc = "call"
    /\ year \in RepresentativeYears(Years) /\ date = 0 /\ ret = 0
    /\ FIXED_FEASTS_DATA = BaseFixedData
    /\ MOVABLE_FEASTS_DATA \in
           {[n \in MovableFeastNames |-> r] :
               r \in {FixedRecord(NoName, 1, TRUE, FALSE)}}
    /\ liturgical_years = <<>>
    /\ ics_file = NoFile

NextYears == NewLiturgicalYear

SpecYears == InitYears /\ [][NextYears]_vars

\* LiturgicalYear(year) constructed over metadata with a record that lacks
\* a field.
InitMalformed ==
    /\ lru_cache = <<>>
    /\ op = "LiturgicalYear" /\ pc = "call"
    /\ year \in AssembleYears /\ date = 0 /\ ret = 0
    /\ FIXED_FEASTS_DATA \in MalformedFixedInputs
    /\ MOVABLE_FEASTS_DATA \in MalformedMovableInputs
    /\ liturgical_years = <<>>
    /\ ics_file = NoFile

NextMalformed == NewLiturgicalYear

SpecMalformed == InitMalformed /\ [][NextMalformed]_vars

\* LiturgicalCalendar(years) constructed over the metadata the tests name,
\* and read at every date of KeyDates.
InitCalendar ==
    /\ lru_cache = <<>>
    /\ op = "LiturgicalCalendar" /\ pc = "call"
    /\ year = 0 /\ date = 0 /\ ret = 0
    /\ FIXED_FEASTS_DATA = BaseFixedData
    /\ MOVABLE_FEASTS_DATA \in
          {[n \in MovableFeastNames |-> FixedRecord(NoName, c, TRUE, FALSE)] :
              c \in {1, 3}}
    /\ liturgical_years = <<>>
    /\ ics_file = NoFile

NextCalendar ==
    \/ NewLiturgicalCalendar
    \/ GetItem

SpecCalendar == InitCalendar /\ [][NextCalendar]_vars

\* LiturgicalCalendar objects constructed one after the other over the
\* metadata the tests name, each written to the file with to_ical or added
\* to it with extend_existing_ical.
InitExport ==
    /\ lru_cache = <<>>
    /\ op = "export" /\ pc = "call"
    /\ year = 0 /\ date = 0 /\ ret = [call |-> "none"]
    /\ FIXED_FEASTS_DATA = BaseFixedData
    /\ MOVABLE_FEASTS_DATA =
          [n \in MovableFeastNames |-> FixedRecord(NoName, 3, TRUE, FALSE)]
    /\ liturgical_years = <<>>
    /\ ics_file = NoFile

NextExport ==
    \/ NewCalendarToExport
    \/ ToIcal
    \/ ExtendExistingIcal

SpecExport == InitExport /\ [][NextExport]_vars

\* Calendars generated one after the other and written to one file, each
\* with or without reuse of the identifiers the file holds.
InitReuse ==
    /\ lru_cache = <<>>
    /\ op = "reuse" /\ pc = "call"
    /\ year = 0 /\ date = 0
    /\ ret = [call |-> "none", issued |-> {}]
    /\ FIXED_FEASTS_DATA = BaseFixedData
    /\ MOVABLE_FEASTS_DATA =
          [n \in MovableFeastNames |-> FixedRecord(NoName, 3, TRUE, FALSE)]
    /\ liturgical_years = <<>>
    /\ ics_file = NoFile

NextReuse ==
    \/ StartGeneration
    \/ AddComponent
    \/ WriteIcal

SpecReuse == InitReuse /\ [][NextReuse]_vars

\* Memoized calls and assemblies in any order and number, over the metadata
\* the tests name.
InitMemo ==
    /\ lru_cache = <<>>
    /\ op = "memo" /\ pc = "call"
    /\ year = 0 /\ date = 0 /\ ret = [call |-> "none"]
    /\ FIXED_FEASTS_DATA = BaseFixedData
    /\ MOVABLE_FEASTS_DATA =
          [n \in MovableFeastNames |-> FixedRecord(NoName, 3, TRUE, FALSE)]
    /\ liturgical_years = <<>>
    /\ ics_file = NoFile

NextMemo ==
    \/ CallMemoized
    \/ AssembleAgain

SpecMemo == InitMemo /\ [][NextMemo]_vars

\* lady_day, holy_name, peters_pence and christ_the_king applied to every
\* year of Years.
InitFeasts ==
    /\ op \in {"lady_day", "holy_name", "peters_pence", "christ_the_king"}
    /\ pc = "call"
    /\ year \in Years /\ date = 0 /\ ret = 0
    /\ NoCalendar

NextFeasts ==
    \/ CallLadyDay
    \/ CallHolyName
    \/ CallPetersPence
    \/ CallChristTheKing

SpecFeasts == InitFeasts /\ [][NextFeasts]_vars

\* computus and the feasts at a fixed distance from Easter applied to every
\* year of Years.
EasterFeasts ==
    {"ash_wednesday", "palm_sunday", "maundy_thursday", "major_rogation",
     "ascension", "pentecost"}

InitEaster ==
    /\ op \in {"computus"} \cup EasterFeasts
    /\ pc = "call"
    /\ year \in Years /\ date = 0 /\ ret = 0
    /\ NoCalendar

NextEaster ==
    \/ CallComputus
    \/ CallAshWednesday
    \/ CallPalmSunday
    \/ CallMaundyThursday
    \/ CallMajorRogation
    \/ CallAscension
    \/ CallPentecost

SpecEaster == InitEaster /\ [][NextEaster]_vars

\* Events created on every day of the liturgical year 2019 and on the day
\* of St. Andrew before it.
InitColor ==
    /\ lru_cache = <<>>
    /\ op = "LiturgicalCalendarEvent" /\ pc = "call"
    /\ year = 0 /\ ret = 0
    /\ date \in DaysOfLiturgicalYear(2019) \cup {Date(2018, 11, 30)}
    /\ FIXED_FEASTS_DATA = ColorFixedData
    /\ MOVABLE_FEASTS_DATA = <<>>
    /\ liturgical_years = <<>>
    /\ ics_file = NoFile

NextColor == NewLiturgicalCalendarEvent

SpecColor == InitColor /\ [][NextColor]_vars

\* full_name applied to every name of FullNameInputs at every rank.
InitFullName ==
    /\ op = "full_name" /\ pc = "call"
    /\ year = 0 /\ date = 0 /\ ret = 0
    /\ NoCalendar

NextFullName == CallFullName

SpecFullName == InitFullName /\ [][NextFullName]_vars

(***************************************************************************)
(* Computus.                                                               *)
(***************************************************************************)
\* C1: for every year Y from 1583 to 9999, computus(Y) is a date of year Y
\* between March 22 and April 25 inclusive.
C1_ComputusInRange ==
    (pc = "done" /\ op = "computus") =>
        /\ YearOf(ret) = year
        /\ Date(year, 3, 22) <= ret
        /\ ret <= Date(year, 4, 25)

\* An Easter on the last admissible day, April 25 (1943).
C1_Witness ==
    pc = "done" /\ op = "computus" /\ year = 1943 /\ ret = Date(1943, 4, 25)

\* The date of Gregorian Easter by the epact reckoning of the calendar reform
\* (golden number, century corrections, epact, paschal full moon, next Sunday).
ReferenceEaster(y) ==
    LET G  == (y % 19) + 1
        C  == (y \div 100) + 1
        X  == ((3 * C) \div 4) - 12
        Z  == ((8 * C + 5) \div 25) - 5
        D  == ((5 * y) \div 4) - X - 10
        E0 == (11 * G + 20 + Z - X) % 30
        E  == IF (E0 = 25 /\ G > 11) \/ E0 = 24 THEN E0 + 1 ELSE E0
        N0 == 44 - E
        N1 == IF N0 < 21 THEN N0 + 30 ELSE N0
        N  == N1 + 7 - ((D + N1) % 7)
    IN  IF N > 31 THEN Date(y, 4, N - 31) ELSE Date(y, 3, N)

\* C2: computus(Y) is the date of Gregorian Easter of year Y as the reference
\* computation gives it; 2004 -> April 11, 2018 -> April 1, 2019 -> April 21,
\* 2027 -> March 28, 2050 -> April 10.
C2_ComputusIsEaster ==
    (pc = "done" /\ op = "computus") =>
        /\ ret = ReferenceEaster(year)
        /\ year = 2004 => ret = Date(2004, 4, 11)
        /\ year = 2018 => ret = Date(2018, 4, 1)
        /\ year = 2019 => ret = Date(2019, 4, 21)
        /\ year = 2027 => ret = Date(2027, 3, 28)
        /\ year = 2050 => ret = Date(2050, 4, 10)

C2_Witness ==
    pc = "done" /\ op = "computus" /\ year = 2019 /\ ret = Date(2019, 4, 21)

(***************************************************************************)
(* Liturgical-year boundaries.                                             *)
(***************************************************************************)
\* C3: every date d lies in exactly one liturgical year L, that is
\* liturgical_year_start(L) <= d <= liturgical_year_end(L), and
\* liturgical_year(d) is that L; consecutive liturgical years are contiguous:
\* liturgical_year_end(Y) + 1 day = liturgical_year_start(Y + 1),
\* liturgical_year(liturgical_year_end(Y)) = Y and
\* liturgical_year(liturgical_year_end(Y) + 1 day) = Y + 1.
C3_OneLiturgicalYearPerDate ==
    /\ (pc = "done" /\ op = "liturgical_year") =>
          /\ liturgical_year_start(ret) <= date
          /\ date <= liturgical_year_end(ret)
          /\ \A L \in (YearOf(date) - 2)..(YearOf(date) + 2) :
                (liturgical_year_start(L) <= date /\ date <= liturgical_year_end(L))
                    => L = ret
    /\ (pc = "done" /\ op = "liturgical_year_end") =>
          /\ ret + 1 = liturgical_year_start(year + 1)
          /\ liturgical_year(ret) = year
          /\ liturgical_year(ret + 1) = year + 1

\* December 2, 2018, the first day of liturgical year 2019.
C3_Witness ==
    /\ pc = "done" /\ op = "liturgical_year"
    /\ date = Date(2018, 12, 2) /\ ret = 2019
    /\ date = liturgical_year_end(2018) + 1

\* C4: liturgical_year_start(Y) is the First Sunday of Advent: a Sunday, the
\* fourth Sunday strictly before December 25 of Y-1, 22 to 28 days before it
\* (November 27 to December 3 of Y-1); liturgical_year_end(Y) is a Saturday.
C4_StartIsFirstSundayOfAdvent ==
    /\ (pc = "done" /\ op = "liturgical_year_start") =>
          LET xmas == Date(year - 1, 12, 25) IN
          /\ weekday(ret) = 6
          /\ Cardinality({s \in ret..(xmas - 1) : weekday(s) = 6}) = 4
          /\ xmas - ret \in 22..28
          /\ Date(year - 1, 11, 27) <= ret
          /\ ret <= Date(year - 1, 12, 3)
          /\ year = 2004 => ret = Date(2003, 11, 30)
          /\ year = 2018 => ret = Date(2017, 12, 3)
          /\ year = 2019 => ret = Date(2018, 12, 2)
    /\ (pc = "done" /\ op = "liturgical_year_end") =>
          /\ weekday(ret) = 5
          /\ year = 2004 => ret = Date(2004, 11, 27)
          /\ year = 2018 => ret = Date(2018, 12, 1)
          /\ year = 2019 => ret = Date(2019, 11, 30)

\* Christmas 2016 was a Sunday: the liturgical year 2017 starts 28 days before.
C4_Witness ==
    /\ pc = "done" /\ op = "liturgical_year_start"
    /\ year = 2017 /\ ret = Date(2016, 11, 27)

\* C5: liturgical_year_start(Y) < liturgical_year_end(Y), and the two are 363
\* to 371 days apart.
C5_YearLength ==
    (pc = "done" /\ op = "liturgical_year_end") =>
        /\ liturgical_year_start(year) < ret
        /\ ret - liturgical_year_start(year) \in 363..371

\* A long liturgical year: 370 days from start to end.
C5_Witness ==
    /\ pc = "done" /\ op = "liturgical_year_end"
    /\ ret - liturgical_year_start(year) = 370

(***************************************************************************)
(* Season classification.                                                  *)
(***************************************************************************)
\* C6: LiturgicalSeason.from_date never reaches its classification-error
\* branch: for every date one of the season tests matches and no ValueError
\* is raised.
C6_FromDateNeverRaises ==
    (pc = "done" /\ op = "from_date") => ret # "ValueError"

\* The last day of a liturgical year, matched by the closed end of the last
\* test.
C6_Witness ==
    /\ pc = "done" /\ op = "from_date"
    /\ date = liturgical_year_end(liturgical_year(date))
    /\ ret = "Time after Pentecost"

\* The first matching test of the priority list, every boundary taken from
\* liturgical year L.
PriorityListSeason(d, L) ==
    IF d = easter(L) - 46 - 6 \/ d = easter(L) - 46 - 2 \/ d = easter(L) - 46 - 1
        THEN "Shrovetide"
    ELSE IF d \in liturgical_year_start(L)..(Date(L - 1, 12, 25) - 1)
        THEN "Advent"
    ELSE IF d \in Date(L - 1, 12, 25)..(Date(L, 1, 6) - 1)
        THEN "Christmastide"
    ELSE IF d \in Date(L, 1, 6)..(easter(L) - 63 - 1)
        THEN "Time after Epiphany"
    ELSE IF d \in (easter(L) - 63)..(easter(L) - 46 - 1)
        THEN "Septuagesima"
    ELSE IF d \in (easter(L) - 46)..(easter(L) - 14 - 1)
        THEN "Lent"
    ELSE IF d \in (easter(L) - 14)..(easter(L) - 7 - 1)
        THEN "Passiontide"
    ELSE IF d \in (easter(L) - 7)..(easter(L) - 3 - 1)
        THEN "Holy Week"
    ELSE IF d \in (easter(L) - 3)..(easter(L) - 1)
        THEN "Paschal Triduum"
    ELSE IF d \in easter(L)..(easter(L) + 49 - 1)
        THEN "Eastertide"
    ELSE IF d \in (easter(L) + 49)..(Date(L, 10, 31) - 1)
        THEN "Time after Pentecost"
    ELSE IF d \in Date(L, 10, 31)..(Date(L, 11, 3) - 1)
        THEN "Hallowtide"
    ELSE IF d \in Date(L, 11, 3)..liturgical_year_end(L)
        THEN "Time after Pentecost"
    ELSE "none"

\* C7: LiturgicalSeason.from_date(d) is the label of the first matching test
\* of the priority list computed with the boundaries of L = liturgical_year(d):
\* Shrovetide on Fat Thursday, Shrove Monday and Mardi Gras, then Advent,
\* Christmastide, Time after Epiphany, Septuagesima, Lent, Passiontide, Holy
\* Week, Paschal Triduum, Eastertide, Time after Pentecost, Hallowtide and
\* Time after Pentecost on their intervals.
C7_FromDateFollowsPriorityList ==
    (pc = "done" /\ op = "from_date") =>
        /\ ret = PriorityListSeason(date, liturgical_year(date))
        /\ date = Date(2018, 12, 4) => ret = "Advent"
        /\ date = Date(2018, 12, 25) => ret = "Christmastide"
        /\ date = Date(2019, 1, 25) => ret = "Time after Epiphany"
        /\ date = Date(2019, 2, 25) => ret = "Septuagesima"
        /\ date = Date(2019, 3, 25) => ret = "Lent"
        /\ date = Date(2019, 4, 8) => ret = "Passiontide"
        /\ date = Date(2019, 4, 15) => ret = "Holy Week"
        /\ date = Date(2019, 4, 25) => ret = "Eastertide"
        /\ date = Date(2019, 6, 25) => ret = "Time after Pentecost"
        /\ date = Date(2019, 11, 2) => ret = "Hallowtide"

\* Palm Sunday 2019, the first day of the Holy Week test.
C7_Witness ==
    /\ pc = "done" /\ op = "from_date"
    /\ date = Date(2019, 4, 14) /\ ret = "Holy Week"

(***************************************************************************)
(* Calendar assembly.                                                      *)
(***************************************************************************)
\* C8: after LiturgicalYear(Y) is constructed its calendar has exactly one
\* entry, a list, for every date from liturgical_year_start(Y) to
\* liturgical_year_end(Y) inclusive, and no entry for any other date.
C8_OneEntryPerDay ==
    (pc = "done" /\ op = "LiturgicalYear" /\ ret.raised = "none") =>
        /\ DOMAIN ret.calendar =
               {d \in (liturgical_year_start(year) - 7)..(liturgical_year_end(year) + 7) :
                   liturgical_year_start(year) <= d /\ d <= liturgical_year_end(year)}
        /\ \A d \in DOMAIN ret.calendar :
               /\ YearOf(d) \in {year - 1, year}
               /\ DOMAIN ret.calendar[d] = 1..Len(ret.calendar[d])

\* Liturgical year 2018 assembled: 364 days, an empty list on an ordinary
\* day and Christmas on December 25, 2017.
C8_Witness ==
    /\ pc = "done" /\ op = "LiturgicalYear" /\ ret.raised = "none"
    /\ year = 2018
    /\ Cardinality(DOMAIN ret.calendar) = 364
    /\ ret.calendar[Date(2018, 8, 1)] = <<>>
    /\ Len(ret.calendar[Date(2017, 12, 25)]) = 1

\* The events of a day list that carry rank r.
Ranked(events, r) == {i \in 1..Len(events) : events[i].rank = r}

\* C9 as stated: when a day holds an event of rank 1 and an event of rank 3,
\* the assembled day list has the rank-1 event at index 0, ahead of the
\* rank-3 event, whichever was appended first.
C9_RankOneBeforeRankThree ==
    (pc = "done" /\ op = "LiturgicalYear" /\ ret.raised = "none") =>
        \A d \in DOMAIN ret.calendar :
            LET events == ret.calendar[d] IN
            (Ranked(events, 1) # {} /\ Ranked(events, 3) # {}) =>
                /\ events[1].rank = 1
                /\ \A i \in Ranked(events, 1), j \in Ranked(events, 3) : i < j

\* C9 amended: when a day holds a rank-1 event that is a liturgical event
\* and an event of rank 3, the assembled day list has a liturgical rank-1
\* event at index 0 and every liturgical rank-1 event ahead of every rank-3
\* event, whichever was appended first.
C9_LiturgicalRankOneBeforeRankThree ==
    (pc = "done" /\ op = "LiturgicalYear" /\ ret.raised = "none") =>
        \A d \in DOMAIN ret.calendar :
            LET events == ret.calendar[d]
                first  == {i \in Ranked(events, 1) : events[i].liturgical_event}
            IN  (first # {} /\ Ranked(events, 3) # {}) =>
                    /\ events[1].rank = 1 /\ events[1].liturgical_event
                    /\ \A i \in first, j \in Ranked(events, 3) : i < j

\* February 25, 2024: St. Matthias, of class 3 in the metadata, is appended
\* with the movable feasts and the Second Sunday of Lent, of rank 1, after
\* it; the Sunday is at index 0.
C9_Witness ==
    /\ pc = "done" /\ op = "LiturgicalYear" /\ ret.raised = "none"
    /\ year = 2024
    /\ st_matthias(2024) = Date(2024, 2, 25)
    /\ MOVABLE_FEASTS_DATA["St. Matthias"].class = 3
    /\ LET events == ret.calendar[Date(2024, 2, 25)] IN
          /\ Len(events) = 2
          /\ events[1].name = <<"Second", " Sunday of Lent">> /\ events[1].rank = 1
          /\ events[2].name = <<"St. Matthias">> /\ events[2].rank = 3

(***************************************************************************)
(* Lookup in a calendar of several liturgical years.                       *)
(***************************************************************************)
\* C10: LiturgicalCalendar(years)[d] returns the day list of the per-year
\* assembly of liturgical_year(d) for every date d whose liturgical year is
\* loaded: it equals LiturgicalYear(liturgical_year(d))[d]; with 2018 and 2019
\* loaded, December 25, 2018 and April 21, 2019 are both served from
\* liturgical year 2019 (Christmas and Easter).
C10_GetItemRoutesByLiturgicalYear ==
    (pc = "done" /\ op = "LiturgicalCalendar") =>
        /\ \A L \in DOMAIN liturgical_years :
              L = liturgical_year(date) =>
                  /\ ret = LiturgicalYear_getitem(LiturgicalYear(L), date)
                  /\ ret.raised = "none"
        /\ (DOMAIN liturgical_years = {2018, 2019} /\ date = Date(2018, 12, 25)) =>
              /\ liturgical_year(date) = 2019
              /\ ret.value = LiturgicalYear(2019).calendar[date]
              /\ ret.value[1].name = <<"Christmas">>
        /\ (DOMAIN liturgical_years = {2018, 2019} /\ date = Date(2019, 4, 21)) =>
              /\ liturgical_year(date) = 2019
              /\ ret.value = LiturgicalYear(2019).calendar[date]
              /\ ret.value[1].name = <<"Easter">>

\* 2018 and 2019 loaded and December 25, 2018 read: a date of civil year
\* 2018 answered with the Christmas of liturgical year 2019.
C10_Witness ==
    /\ pc = "done" /\ op = "LiturgicalCalendar"
    /\ DOMAIN liturgical_years = {2018, 2019}
    /\ date = Date(2018, 12, 25)
    /\ ret.raised = "none"
    /\ Len(ret.value) = 1
    /\ ret.value[1].name = <<"Christmas">>
    /\ ret.value[1].date = date

\* C11: looking up a date whose liturgical year is not among the loaded
\* years of a LiturgicalCalendar ends in an error (KeyError); it never
\* returns an empty list or any other day list.
C11_UnloadedYearRaises ==
    (/\ pc = "done" /\ op = "LiturgicalCalendar"
     /\ liturgical_year(date) \notin DOMAIN liturgical_years) =>
        /\ ret.raised = "KeyError"
        /\ "value" \notin DOMAIN ret

\* Only 2018 loaded and December 25, 2018 read: a date of civil year 2018
\* whose liturgical year, 2019, is not loaded.
C11_Witness ==
    /\ pc = "done" /\ op = "LiturgicalCalendar"
    /\ DOMAIN liturgical_years = {2018}
    /\ date = Date(2018, 12, 25)
    /\ liturgical_year(date) = 2019
    /\ ret = [raised |-> "KeyError"]

(***************************************************************************)
(* Export to an ICS file.                                                  *)
(***************************************************************************)
\* The liturgical years that have an event in the bag.
YearsPresent(events) == {liturgical_year(e.dtstart) : e \in BagToSet(events)}

\* C12: after any sequence of extend_existing_ical calls on an ICS file no
\* liturgical year's events are present twice (no event is in the file more
\* than once), and a requested liturgical year whose events are already in
\* the file adds no event to it.
C12_ExtendAddsNoYearTwice ==
    (pc = "call" /\ op = "export") =>
        /\ \A e \in BagToSet(ics_file.events) : CopiesIn(e, ics_file.events) = 1
        /\ ret.call = "extend_existing_ical" =>
              /\ ret.added \cap YearsPresent(ret.before.events) = {}
              /\ \A e \in BagToSet(ret.before.events) :
                    CopiesIn(e, ics_file.events) = CopiesIn(e, ret.before.events)

\* A file holding liturgical year 2018 extended by a calendar of 2018 and
\* 2019: only 2019 is added.
C12_Witness ==
    /\ pc = "call" /\ op = "export"
    /\ ret.call = "extend_existing_ical"
    /\ YearsPresent(ret.before.events) = {2018}
    /\ DOMAIN liturgical_years = {2018, 2019}
    /\ ret.added = {2019}
    /\ YearsPresent(ics_file.events) = {2018, 2019}

C15_LadyDay ==
    (pc = "done" /\ op = "lady_day") =>
        LET march25 == Date(year, 3, 25)
            Easter  == computus_body(year)
        IN  /\ (Easter - 7 <= march25 /\ march25 <= Easter + 7)
                    => ret = Easter + 8
            /\ (~(Easter - 7 <= march25 /\ march25 <= Easter + 7)
                 /\ weekday(march25) = 6) => ret = Date(year, 3, 26)
            /\ (~(Easter - 7 <= march25 /\ march25 <= Easter + 7)
                 /\ weekday(march25) # 6) => ret = march25
            /\ year = 2018 => ret = Date(2018, 4, 9)

\* March 25 on Palm Sunday itself (2018): Lady Day is April 9.
C15_Witness ==
    /\ pc = "done" /\ op = "lady_day" /\ year = 2018
    /\ palm_sunday(2018) = Date(2018, 3, 25)
    /\ ret = Date(2018, 4, 9)

\* C16: holy_name(Y) is the first Sunday of civil year Y, unless that Sunday
\* is January 1, 6 or 7, in which case it is January 2 whatever its weekday;
\* so the result is always one of January 2 to January 5.
C16_HolyName ==
    (pc = "done" /\ op = "holy_name") =>
        LET first_sunday ==
                CHOOSE d \in Date(year, 1, 1)..Date(year, 1, 7) : weekday(d) = 6
        IN  /\ first_sunday \in {Date(year, 1, 1), Date(year, 1, 6), Date(year, 1, 7)}
                    => ret = Date(year, 1, 2)
            /\ first_sunday \notin {Date(year, 1, 1), Date(year, 1, 6), Date(year, 1, 7)}
                    => ret = first_sunday
            /\ Date(year, 1, 2) <= ret /\ ret <= Date(year, 1, 5)

\* A first Sunday on January 7 (2018): the feast is on Tuesday, January 2.
C16_Witness ==
    /\ pc = "done" /\ op = "holy_name" /\ year = 2018
    /\ weekday(Date(2018, 1, 7)) = 6
    /\ ret = Date(2018, 1, 2) /\ weekday(ret) = 1

\* C17: peters_pence(Y) is a Sunday and is the Sunday nearest to June 29 of
\* Y: the preceding or the following Sunday, whichever is closer, never more
\* than 3 days from June 29.
C17_PetersPence ==
    (pc = "done" /\ op = "peters_pence") =>
        LET june29 == Date(year, 6, 29)
            Distance(d) == IF d >= june29 THEN d - june29 ELSE june29 - d
        IN  /\ weekday(ret) = 6
            /\ Distance(ret) <= 3
            /\ \A d \in (june29 - 7)..(june29 + 7) :
                  (weekday(d) = 6 /\ d # ret) => Distance(d) > Distance(ret)

\* June 29 on a Thursday (2017): the following Sunday, July 2, is nearer.
C17_Witness ==
    /\ pc = "done" /\ op = "peters_pence" /\ year = 2017
    /\ weekday(Date(2017, 6, 29)) = 3
    /\ ret = Date(2017, 7, 2)

\* C18: christ_the_king(Y) is the last Sunday of October of Y for every
\* year: a Sunday between October 25 and October 31 inclusive (October 28 in
\* 2018).
C18_ChristTheKing ==
    (pc = "done" /\ op = "christ_the_king") =>
        /\ weekday(ret) = 6
        /\ Date(year, 10, 25) <= ret /\ ret <= Date(year, 10, 31)
        /\ \A d \in (ret + 1)..Date(year, 10, 31) : weekday(d) # 6
        /\ year = 2018 => ret = Date(2018, 10, 28)

\* The year of the tests: October 28, 2018.
C18_Witness ==
    /\ pc = "done" /\ op = "christ_the_king" /\ year = 2018
    /\ ret = Date(2018, 10, 28)

(***************************************************************************)
(* The color of an event.                                                  *)
(***************************************************************************)
\* The created event is a fixed-date record of its date: a record of the
\* fixed table on the event's month and day bears its name.
FixedRecordOfItsDate ==
    \E key \in DOMAIN FIXED_FEASTS_DATA :
        /\ key = date_str(date)
        /\ \E i \in DOMAIN FIXED_FEASTS_DATA[key] :
              FIXED_FEASTS_DATA[key][i].name = ret.name

\* C19 as stated: an event created without an explicit color is White unless
\* (a) it has no special liturgy, or (b) its rank is 4, or (c) it is movable
\* and falls in Lent or Passiontide at a rank other than 1, and in exactly
\* those cases it has the color of its season.
C19_WhiteUnlessMovableInLent ==
    (pc = "done" /\ op = "LiturgicalCalendarEvent" /\ ret.explicit = "None") =>
        LET inherits == \/ ~ret.liturgical_event
                        \/ ret.rank = 4
                        \/ /\ ~FixedRecordOfItsDate
                           /\ ret.season \in {"Lent", "Passiontide"}
                           /\ ret.rank # 1
        IN  /\ inherits => ret.color = ret.season_color
            /\ ~inherits => ret.color = "White"

\* C19: an event created without an explicit color is White, or Red when
\* its titles include Martyr, Apostle or Evangelist, unless (a) it has no
\* special liturgy, or (b) its rank is 4, or (c) it is movable (no fixed
\* record of its day has its name), or (d) it falls in Lent or Passiontide
\* at a rank other than 1; in exactly those cases it has the color of its
\* season.
C19_DerivedColor ==
    (pc = "done" /\ op = "LiturgicalCalendarEvent" /\ ret.explicit = "None") =>
        LET inherits == \/ ~ret.liturgical_event
                        \/ ret.rank = 4
                        \/ ~FixedRecordOfItsDate
                        \/ /\ ret.season \in {"Lent", "Passiontide"}
                           /\ ret.rank # 1
            red      == ret.titles \cap {"Martyr", "Apostle", "Evangelist"} # {}
        IN  /\ inherits => ret.color = ret.season_color
            /\ (~inherits /\ red) => ret.color = "Red"
            /\ (~inherits /\ ~red) => ret.color = "White"
            /\ (date = Date(2018, 12, 6) /\ ret.name = <<"St. Nicholas">>
                 /\ ret.rank = 3 /\ ret.liturgical_event
                 /\ ret.titles = {"Bishop", "Confessor"}) => ret.color = "White"

\* A movable feast of rank 1 outside Lent (Pentecost 2019) has the green of
\* its season, and not white.
C19_Witness ==
    /\ pc = "done" /\ op = "LiturgicalCalendarEvent" /\ ret.explicit = "None"
    /\ date = pentecost(2019) /\ ret.name = <<"Pentecost">>
    /\ ret.rank = 1 /\ ret.liturgical_event /\ ~FixedRecordOfItsDate
    /\ ret.season = "Time after Pentecost"
    /\ ret.color = "Green"

(***************************************************************************)
(* The full name of an event.                                              *)
(***************************************************************************)
\* The prefixes C20 names, and the results it gives them.
C20_Prefixes ==
    {<<"S", "t", ".">>,
     <<"S", "S", ".">>,
     <<"P", "o", "p", "e">>,
     <<"O", "u", "r", " ", "L", "a", "d", "y">>}

C20_Expected(name, rank, capitalize) ==
    LET body == (IF rank # 4 THEN <<"t", "h", "e", " ", "F", "e", "a", "s", "t", " ",
                         "o", "f", " ">>
                 ELSE <<"t", "h", "e", " ", "C", "o", "m", "m", "e", "m",
                          "o", "r", "a", "t", "i", "o", "n", " ", "o", "f",
                          " ">>) \o name
    IN  IF capitalize THEN <<upper(body[1])>> \o Tail(body) ELSE body

\* C20: full_name of an event whose name begins with "St.", "SS.", "Pope" or
\* "Our Lady" is "the Feast of <name>" when its rank is not 4 and "the
\* Commemoration of <name>" when its rank is 4, the first letter capitalized
\* on request; a name matching no pattern of full_name is returned
\* unchanged, but for the capital on request.
C20_FullName ==
    (pc = "done" /\ op = "full_name") =>
        /\ (\E prefix \in C20_Prefixes : startswith(ret.name, prefix)) =>
              ret.full_name = C20_Expected(ret.name, ret.rank, ret.capitalize)
        /\ (/\ \A prefix \in C20_Prefixes \cup the_feast_of_prefixes
                              \cup the_feast_of_the_prefixes
                              \cup ORDINALS_values
                              \cup {<<"L", "a", "s", "t", " ", "S", "u", "n", "d", "a", "y">>, <<"F", "e", "a", "s", "t">>} :
                   ~startswith(ret.name, prefix)
             /\ ret.name \notin other_the_feasts) =>
              ret.full_name = IF ret.capitalize
                              THEN <<upper(ret.name[1])>> \o Tail(ret.name)
                              ELSE ret.name

(***************************************************************************)
(* Metadata records that lack a field.                                     *)
(***************************************************************************)
\* A record without its class or without its name.
Malformed(rec) == rec.class = 0 \/ rec.name = NoName

\* The events LiturgicalYear makes of the malformed records on the day d.
EventsOfMalformed(d) ==
    LET recs == IF date_str(d) \in DOMAIN FIXED_FEASTS_DATA
                THEN FIXED_FEASTS_DATA[date_str(d)] ELSE <<>>
    IN  {from_json(d, recs[i], NoName) :
            i \in {j \in DOMAIN recs : Malformed(recs[j])}}
        \cup {from_json(d, MOVABLE_FEASTS_DATA[n], <<n>>) :
                n \in {m \in MovableFeastNames :
                          Malformed(MOVABLE_FEASTS_DATA[m])}}

\* C21: a fixed or movable metadata record that lacks its class or its name
\* is rejected: the assembly of the liturgical year completes without an
\* error, and no day list holds an event made of such a record.
C21_MalformedRecordRejected ==
    (pc = "done" /\ op = "LiturgicalYear") =>
        /\ ret.raised = "none"
        /\ \A d \in DOMAIN ret.calendar :
               \A i \in DOMAIN ret.calendar[d] :
                   ret.calendar[d][i] \notin EventsOfMalformed(d)

(***************************************************************************)
(* The order of the events of equal precedence.                            *)
(***************************************************************************)
\* The names of the positional Sundays that carry no ordinal of ORDINALS.
PositionalNames ==
    {<<"Fifth Sunday after Easter">>, <<"Sunday after Ascension">>,
     <<"Last Sunday after Pentecost">>}

\* The pass of the constructor an event of a day list was appended in: 1 for
\* a fixed record of class 1, 2 for a movable feast, 3 for a positional
\* Sunday, 4 for a fixed record of another class.
PassOf(e) ==
    IF Len(e.name) = 1 /\ e.name[1] \in DOMAIN MOVABLE_FEASTS_DATA THEN 2
    ELSE IF Len(e.name) = 2 \/ e.name \in PositionalNames THEN 3
    ELSE IF e.rank = 1 THEN 1
    ELSE 4

\* The place of an event within its pass: the index of a movable feast in
\* the registry, of a fixed record in the metadata of its day.
PlaceOf(e, registry) ==
    IF PassOf(e) = 2
    THEN CHOOSE k \in DOMAIN registry : registry[k] = e.name[1]
    ELSE IF PassOf(e) = 3 THEN 0
    ELSE CHOOSE i \in DOMAIN FIXED_FEASTS_DATA[date_str(e.date)] :
             from_json(e.date, FIXED_FEASTS_DATA[date_str(e.date)][i], NoName) = e

\* C22: events of one day whose precedence keys are equal keep their append
\* order after the final sort: fixed records of class 1 first, then movable
\* feasts in registry order, then positional Sundays, then fixed records of
\* another class, those of one pass in the order of the metadata.
C22_TiesKeepAppendOrder ==
    (pc = "done" /\ op = "LiturgicalYear" /\ ret.raised = "none") =>
        LET pairs    == function_name_pairs(year)
            registry == [k \in DOMAIN pairs |-> pairs[k].name]
        IN  \A d \in DOMAIN ret.calendar :
                LET events == ret.calendar[d] IN
                \A i, j \in DOMAIN events :
                    (/\ i < j
                     /\ feast_sort_key(events[i]) = feast_sort_key(events[j])) =>
                        \/ PassOf(events[i]) < PassOf(events[j])
                        \/ /\ PassOf(events[i]) = PassOf(events[j])
                           /\ PlaceOf(events[i], registry)
                                  <= PlaceOf(events[j], registry)

\* Liturgical year 2024 with every movable feast of class 1 and a second
\* record of class 1 on December 8: St. Matthias, a movable feast, stays
\* ahead of the Second Sunday of Lent on February 25, and the Immaculate
\* Conception ahead of the record that follows it in the metadata.
C22_Witness ==
    /\ pc = "done" /\ op = "LiturgicalYear" /\ ret.raised = "none"
    /\ year = 2024
    /\ LET events == ret.calendar[Date(2024, 2, 25)] IN
          /\ Len(events) = 2
          /\ events[1].name = <<"St. Matthias">> /\ events[1].rank = 1
          /\ events[2].name = <<"Second", " Sunday of Lent">>
          /\ events[2].rank = 1
    /\ LET events == ret.calendar[Date(2023, 12, 8)] IN
          /\ Len(events) = 2
          /\ events[1].name = <<"The Immaculate Conception">>
          /\ events[2].name = <<"Extra">>
          /\ feast_sort_key(events[1]) = feast_sort_key(events[2])

(***************************************************************************)
(* Events without a liturgy or without a rank.                             *)
(***************************************************************************)
\* An event with no liturgical content or no rank.
Unranked(e) == ~e.liturgical_event \/ e.rank = 0

\* C23 as stated: in every assembled day list, every event that has no
\* liturgical content or no rank comes after every event of that day that is
\* a ranked liturgical event.
C23_UnrankedSortLast ==
    (pc = "done" /\ op = "LiturgicalYear" /\ ret.raised = "none") =>
        \A d \in DOMAIN ret.calendar :
            LET events == ret.calendar[d] IN
            \A i, j \in DOMAIN events :
                (Unranked(events[i]) /\ ~Unranked(events[j])) => j < i

\* C23 amended: in every assembled day list, every event that has no
\* liturgical content or no rank comes after every event of that day that is
\* a liturgical event of rank 1, 2 or 3.
C23_UnrankedAfterRanksOneToThree ==
    (pc = "done" /\ op = "LiturgicalYear" /\ ret.raised = "none") =>
        \A d \in DOMAIN ret.calendar :
            LET events == ret.calendar[d] IN
            \A i, j \in DOMAIN events :
                (/\ Unranked(events[i])
                 /\ ~Unranked(events[j]) /\ events[j].rank \in 1..3) => j < i

\* April 25, 2018: a record of class 1 without a liturgy is appended in the
\* first pass and the Major Rogation, of class 3, after it; the sort puts the
\* record behind the Major Rogation.
C23_Witness ==
    /\ pc = "done" /\ op = "LiturgicalYear" /\ ret.raised = "none"
    /\ year = 2018
    /\ LET events == ret.calendar[Date(2018, 4, 25)] IN
          /\ Len(events) = 2
          /\ events[1].name = <<"Major Rogation">>
          /\ events[1].rank = 3 /\ events[1].liturgical_event
          /\ events[2].name = <<"Extra">>
          /\ events[2].rank = 1 /\ ~events[2].liturgical_event

(***************************************************************************)
(* Vigils of the second class.                                             *)
(***************************************************************************)
\* A liturgical event of rank 2 that is a vigil.
SecondClassVigil(e) ==
    /\ e.liturgical_event /\ e.rank = 2
    /\ e.name = <<"Vigil of SS. Peter & Paul">>

\* C24: a vigil of rank 2 gets the precedence key 2.5 (5 when doubled), so
\* in its day list it comes after every other liturgical event of rank 2 and
\* before every event of rank 3.
C24_VigilAfterSecondClass ==
    (pc = "done" /\ op = "LiturgicalYear" /\ ret.raised = "none") =>
        \A d \in DOMAIN ret.calendar :
            LET events == ret.calendar[d] IN
            \A i \in DOMAIN events :
                SecondClassVigil(events[i]) =>
                    /\ feast_sort_key(events[i]) = 5
                    /\ \A j \in DOMAIN events :
                          /\ (/\ events[j].liturgical_event
                              /\ events[j].rank = 2
                              /\ ~SecondClassVigil(events[j])) => j < i
                          /\ events[j].rank = 3 => i < j

(***************************************************************************)
(* Peter's Pence three days from June 29.                                  *)
(***************************************************************************)
\* C25 as stated: whenever the Sunday peters_pence(Y) returns is exactly 3
\* days away from June 29 of Y, it is the earlier Sunday, June 26, never the
\* later one, July 2.
C25_ThreeDaysIsEarlierSunday ==
    (pc = "done" /\ op = "peters_pence") =>
        ((ret - Date(year, 6, 29) \in {-3, 3}) => ret = Date(year, 6, 26))

\* C25 amended: the Sunday peters_pence(Y) returns is exactly 3 days away
\* from June 29 of Y when June 29 is a Wednesday, and it is then the earlier
\* Sunday, June 26, and when June 29 is a Thursday, and it is then the later
\* Sunday, July 2.
C25_ThreeDaysIsNearestSunday ==
    (pc = "done" /\ op = "peters_pence") =>
        LET june29 == Date(year, 6, 29) IN
        /\ (ret - june29 \in {-3, 3}) <=> (weekday(june29) \in {2, 3})
        /\ weekday(june29) = 2 => ret = Date(year, 6, 26)
        /\ weekday(june29) = 3 => ret = Date(year, 7, 2)
        /\ weekday(ret) = 6

\* June 29 on a Thursday (2023): July 2, three days later, is returned.
C25_Witness ==
    /\ pc = "done" /\ op = "peters_pence" /\ year = 2023
    /\ weekday(Date(2023, 6, 29)) = 3
    /\ ret = Date(2023, 7, 2) /\ ret - Date(2023, 6, 29) = 3

(***************************************************************************)
(* The Sundays after Pentecost.                                            *)
(***************************************************************************)
\* The dates of a calendar that hold an event of the name.
DatesOf(calendar, name) ==
    {d \in DOMAIN calendar :
        \E i \in DOMAIN calendar[d] : calendar[d][i].name = name}

\* C26: for every year Y, LiturgicalYear(Y) places "<n-th> Sunday after
\* Pentecost" on Pentecost + 7n days for each n >= 2 up to the Sunday two
\* weeks before the end of the year, and "Last Sunday after Pentecost" on
\* exactly one date, liturgical_year_end(Y) - 6, the Sunday before the next
\* First Sunday of Advent, which holds no Sunday named by an ordinal; in 2018
\* the Fifteenth Sunday after Pentecost is September 2 and the Last Sunday
\* after Pentecost November 25.
C26_SundaysAfterPentecost ==
    (pc = "done" /\ op = "LiturgicalYear") =>
        /\ ret.raised = "none"
        /\ LET whitsun == computus_values[year] + 49
               last    == liturgical_year_end(year) - 6
           IN  /\ \A n \in 2..Len(ORDINALS) :
                     DatesOf(ret.calendar, <<ORDINALS[n], " Sunday after Pentecost">>)
                         = IF whitsun + 7 * n <= last - 7
                           THEN {whitsun + 7 * n} ELSE {}
               /\ DatesOf(ret.calendar,
                          <<ORDINALS[1], " Sunday after Pentecost">>) = {}
               /\ whitsun + 14 <= last - 7
               /\ DatesOf(ret.calendar, <<"Last Sunday after Pentecost">>) = {last}
               /\ weekday(last) = 6
               /\ last + 7 = liturgical_year_start(year + 1)
               /\ \A i \in DOMAIN ret.calendar[last] :
                     Len(ret.calendar[last][i].name) = 1
        /\ year = 2018 =>
              /\ ret.calendar[Date(2018, 9, 2)][1].name
                     = <<"Fifteenth", " Sunday after Pentecost">>
              /\ ret.calendar[Date(2018, 11, 25)][1].name
                     = <<"Last Sunday after Pentecost">>

\* Liturgical year 2018: the Sundays after Pentecost run from the Second, on
\* June 3, to the Twenty-sixth, on November 18, and the Last is November 25.
C26_Witness ==
    /\ pc = "done" /\ op = "LiturgicalYear" /\ ret.raised = "none"
    /\ year = 2018
    /\ DatesOf(ret.calendar, <<"Second", " Sunday after Pentecost">>)
           = {Date(2018, 6, 3)}
    /\ DatesOf(ret.calendar, <<"Twenty-sixth", " Sunday after Pentecost">>)
           = {Date(2018, 11, 18)}
    /\ DatesOf(ret.calendar, <<"Twenty-seventh", " Sunday after Pentecost">>) = {}
    /\ DatesOf(ret.calendar, <<"Last Sunday after Pentecost">>)
           = {Date(2018, 11, 25)}

(***************************************************************************)
(* The weekdays of the feasts counted from Easter.                         *)
(***************************************************************************)
\* C27: for every year computus(Y) is a Sunday, so every feast at a fixed
\* distance from Easter falls on the weekday of its definition: Ash
\* Wednesday, Easter - 46, on a Wednesday; Palm Sunday, Easter - 7, on a
\* Sunday; Maundy Thursday on a Thursday; the Ascension, Easter + 39, on a
\* Thursday; Pentecost, Easter + 49, on a Sunday; and a Major Rogation moved
\* off Easter, April 25 + 2, on a Tuesday.
C27_WeekdaysOfEasterFeasts ==
    (pc = "done" /\ op \in {"computus"} \cup EasterFeasts) =>
        LET sunday == computus_values[year] IN
        /\ weekday(sunday) = 6
        /\ op = "computus" => ret = sunday
        /\ op = "ash_wednesday" => (ret = sunday - 46 /\ weekday(ret) = 2)
        /\ op = "palm_sunday" => (ret = sunday - 7 /\ weekday(ret) = 6)
        /\ op = "maundy_thursday" => (ret < sunday /\ sunday - ret < 7
                                      /\ weekday(ret) = 3)
        /\ op = "ascension" => (ret = sunday + 39 /\ weekday(ret) = 3)
        /\ op = "pentecost" => (ret = sunday + 49 /\ weekday(ret) = 6)
        /\ op = "major_rogation" =>
              IF sunday = Date(year, 4, 25)
              THEN ret = Date(year, 4, 27) /\ weekday(ret) = 1
              ELSE ret = Date(year, 4, 25)

\* 2038: Easter is April 25, and the Major Rogation is Tuesday, April 27.
C27_Witness ==
    /\ pc = "done" /\ op = "major_rogation" /\ year = 2038
    /\ computus_values[2038] = Date(2038, 4, 25)
    /\ ret = Date(2038, 4, 27) /\ weekday(ret) = 1

(***************************************************************************)
(* The dates the constructor appends to.                                   *)
(***************************************************************************)
\* C28: for every year Y, every date computed during the construction of
\* LiturgicalYear(Y) for a movable feast, each date of a feast of several
\* dates included, or for a positional Sunday lies within
\* [liturgical_year_start(Y), liturgical_year_end(Y)], so no append addresses
\* a date the calendar lacks: the event is in the list of its date.
C28_AppendedDatesInRange ==
    (pc = "done" /\ op = "LiturgicalYear") =>
        LET pairs   == function_name_pairs(year)
            sundays == SundayEvents(year)
            first   == liturgical_year_start(year)
            last    == liturgical_year_end(year)
        IN  /\ ret.raised = "none"
            /\ \A k \in DOMAIN pairs : \A i \in DOMAIN pairs[k].dates :
                  /\ first <= pairs[k].dates[i] /\ pairs[k].dates[i] <= last
                  /\ pairs[k].dates[i] \in DatesOf(ret.calendar, <<pairs[k].name>>)
            /\ \A k \in DOMAIN sundays :
                  /\ first <= sundays[k].date /\ sundays[k].date <= last
                  /\ sundays[k].date \in DatesOf(ret.calendar, sundays[k].name)

\* Liturgical year 2018: the First Sunday of Advent is appended on the first
\* day of the year, December 3, 2017, and the Last Sunday after Pentecost on
\* November 25, six days before the last.
C28_Witness ==
    /\ pc = "done" /\ op = "LiturgicalYear" /\ ret.raised = "none"
    /\ year = 2018
    /\ liturgical_year_start(2018) = Date(2017, 12, 3)
    /\ ret.calendar[Date(2017, 12, 3)][1].name = <<"First", " Sunday of Advent">>
    /\ liturgical_year_end(2018) = Date(2018, 12, 1)
    /\ Date(2018, 11, 25) \in DatesOf(ret.calendar, <<"Last Sunday after Pentecost">>)
    /\ Date(2017, 12, 17) \in DatesOf(ret.calendar, <<"Gaudete Sunday">>)

(***************************************************************************)
(* The ordinals of the Sundays.                                            *)
(***************************************************************************)
\* C29: for every year Y, the index that names the Sundays after Epiphany
\* and the Sundays after Pentecost in LiturgicalYear(Y) stays within the keys
\* 1 to 27 of ORDINALS, the largest index of a Sunday after Pentecost being
\* at most 27, so the lookup of the name never fails.
C29_OrdinalIndexInTable ==
    (pc = "done" /\ op = "LiturgicalYear") =>
        LET epi == EpiphanyLoop(year)
            pen == PentecostLoop(year)
        IN  /\ \A k \in DOMAIN epi : epi[k].i \in DOMAIN ORDINALS
            /\ \A k \in DOMAIN pen : pen[k].i \in DOMAIN ORDINALS
            /\ Len(pen) + 1 <= 27
            /\ ret.raised = "none"
            /\ \A d \in DOMAIN ret.calendar : \A i \in DOMAIN ret.calendar[d] :
                  ret.calendar[d][i].name[1] # "KeyError"

\* A year whose Sundays after Pentecost reach the last key: the
\* Twenty-seventh Sunday after Pentecost is in the calendar.
C29_Witness ==
    /\ pc = "done" /\ op = "LiturgicalYear" /\ ret.raised = "none"
    /\ Len(PentecostLoop(year)) = 26
    /\ PentecostLoop(year)[26].i = 27
    /\ DatesOf(ret.calendar, <<"Twenty-seventh", " Sunday after Pentecost">>)
           = {PentecostLoop(year)[26].date}

(***************************************************************************)
(* Extending a file that holds a neighbouring liturgical year.             *)
(***************************************************************************)
\* C30: after extend_existing_ical on an ICS file, the file contains the
\* events of every liturgical year of the calendar object: a liturgical year
\* is skipped only when the events of that same liturgical year are already
\* in the file, never because the file holds events of a neighbouring
\* liturgical year.
C30_ExtendAddsEveryMissingYear ==
    (/\ pc = "call" /\ op = "export"
     /\ ret.call = "extend_existing_ical" /\ ret.raised = "none") =>
        /\ DOMAIN liturgical_years \subseteq YearsPresent(ics_file.events)
        /\ \A y \in DOMAIN liturgical_years :
              y \notin ret.added => y \in YearsPresent(ret.before.events)

====
